---- MODULE Spec2Model ----
(***************************************************************************)
(* A model of the retrieval core of the compliance assistant:              *)
(* StandardRetrieverAgent (src/agents/standard_retriever.py) on top of     *)
(* BaseAgent (src/agents/base_agent.py).                                   *)
(*                                                                         *)
(* The state is one agent instance: its primary collection or its          *)
(* in-memory fallback storage, the _standards_loaded flag, the status and  *)
(* error counter, and the value returned by the last public call.  The     *)
(* environment is the file system under "standards" and the embedding      *)
(* model; both are fixed by Init and never change.                         *)
(*                                                                         *)
(* Text.  A chunk is a sequence of words (separated by single blanks, as   *)
(* _clean_extracted_text leaves them) together with its length in          *)
(* characters.  The words listed are the words of the chunk that belong    *)
(* to the lexicon Spell knows; the remaining characters of the chunk are   *)
(* filler that contains no keyword, no section pattern and no query word.  *)
(* Substring tests are done on characters.                                 *)
(*                                                                         *)
(* Scores are Python floats, computed operation by operation as the code   *)
(* computes them; distances are in hundredths, the float being the one     *)
(* nearest to that decimal.                                                *)
(***************************************************************************)
EXTENDS Integers, Sequences, FiniteSets, TLC

VARIABLES
    fs,                 \* the file system: [dir_exists, ok, corrupt, listdir]
    embed,              \* the embedding model: text -> embedding
    collection,         \* self.collection: [is_none, items]
    fallback_storage,   \* self.fallback_storage: [exists, documents, metadatas, ids, standards_index, keyword_index]
    standards_loaded,   \* self._standards_loaded
    status,             \* BaseAgent.status
    error_count,        \* BaseAgent.error_count
    ingested,           \* history: files _load_pdf_standard_enhanced has processed with success
    loads,              \* history: number of ingestion passes run so far
    ret                 \* the last public call: its arguments and what it returned

vars == <<fs, embed, collection, fallback_storage, standards_loaded, status,
          error_count, ingested, loads, ret>>

-----------------------------------------------------------------------------
(* Bounds of the model *)

\* ingestion passes (load_selected_standards loops, directory loads) per instance
MaxLoads == 2

\* largest top_k a caller passes
MaxTopK == 2

\* phrases a sample chunk is made of
MaxPhrases == 2

\* paragraphs of a sample text
MaxParagraphs == 3

\* calls of set_status("error") counted before reset_error_count
MaxErrors == 1

-----------------------------------------------------------------------------
(* Generic helpers *)

Min(a, b) == IF a < b THEN a ELSE b

Range(s) == {s[i] : i \in 1..Len(s)}

\* python: s[:n]
Take(s, n) == SubSeq(s, 1, Min(n, Len(s)))

RECURSIVE Concat(_)
Concat(ss) == IF ss = <<>> THEN <<>> ELSE Head(ss) \o Concat(Tail(ss))

-----------------------------------------------------------------------------
(* Characters and words *)

UpperAlpha == <<"A","B","C","D","E","F","G","H","I","J","K","L","M",
                "N","O","P","Q","R","S","T","U","V","W","X","Y","Z">>
LowerAlpha == <<"a","b","c","d","e","f","g","h","i","j","k","l","m",
                "n","o","p","q","r","s","t","u","v","w","x","y","z">>
Digits == {"0","1","2","3","4","5","6","7","8","9"}

\* the characters of a word of the lexicon
Spell(w) ==
    CASE w = "data" -> <<"d", "a", "t", "a">>
      [] w = "pribadi" -> <<"p", "r", "i", "b", "a", "d", "i">>
      [] w = "personal" -> <<"p", "e", "r", "s", "o", "n", "a", "l">>
      [] w = "consent" -> <<"c", "o", "n", "s", "e", "n", "t">>
      [] w = "persetujuan" -> <<"p", "e", "r", "s", "e", "t", "u", "j", "u", "a", "n">>
      [] w = "processing" -> <<"p", "r", "o", "c", "e", "s", "s", "i", "n", "g">>
      [] w = "pengolahan" -> <<"p", "e", "n", "g", "o", "l", "a", "h", "a", "n">>
      [] w = "security" -> <<"s", "e", "c", "u", "r", "i", "t", "y">>
      [] w = "keamanan" -> <<"k", "e", "a", "m", "a", "n", "a", "n">>
      [] w = "privacy" -> <<"p", "r", "i", "v", "a", "c", "y">>
      [] w = "privasi" -> <<"p", "r", "i", "v", "a", "s", "i">>
      [] w = "rights" -> <<"r", "i", "g", "h", "t", "s">>
      [] w = "hak" -> <<"h", "a", "k">>
      [] w = "protection" -> <<"p", "r", "o", "t", "e", "c", "t", "i", "o", "n">>
      [] w = "perlindungan" -> <<"p", "e", "r", "l", "i", "n", "d", "u", "n", "g", "a", "n">>
      [] w = "breach" -> <<"b", "r", "e", "a", "c", "h">>
      [] w = "pelanggaran" -> <<"p", "e", "l", "a", "n", "g", "g", "a", "r", "a", "n">>
      [] w = "controller" -> <<"c", "o", "n", "t", "r", "o", "l", "l", "e", "r">>
      [] w = "pengendali" -> <<"p", "e", "n", "g", "e", "n", "d", "a", "l", "i">>
      [] w = "processor" -> <<"p", "r", "o", "c", "e", "s", "s", "o", "r">>
      [] w = "pemroses" -> <<"p", "e", "m", "r", "o", "s", "e", "s">>
      [] w = "transfer" -> <<"t", "r", "a", "n", "s", "f", "e", "r">>
      [] w = "storage" -> <<"s", "t", "o", "r", "a", "g", "e">>
      [] w = "penyimpanan" -> <<"p", "e", "n", "y", "i", "m", "p", "a", "n", "a", "n">>
      [] w = "retention" -> <<"r", "e", "t", "e", "n", "t", "i", "o", "n">>
      [] w = "retensi" -> <<"r", "e", "t", "e", "n", "s", "i">>
      [] w = "deletion" -> <<"d", "e", "l", "e", "t", "i", "o", "n">>
      [] w = "penghapusan" -> <<"p", "e", "n", "g", "h", "a", "p", "u", "s", "a", "n">>
      [] w = "audit" -> <<"a", "u", "d", "i", "t">>
      [] w = "compliance" -> <<"c", "o", "m", "p", "l", "i", "a", "n", "c", "e">>
      [] w = "kepatuhan" -> <<"k", "e", "p", "a", "t", "u", "h", "a", "n">>
      [] w = "regulation" -> <<"r", "e", "g", "u", "l", "a", "t", "i", "o", "n">>
      [] w = "regulasi" -> <<"r", "e", "g", "u", "l", "a", "s", "i">>
      [] w = "law" -> <<"l", "a", "w">>
      [] w = "hukum" -> <<"h", "u", "k", "u", "m">>
      [] w = "definition" -> <<"d", "e", "f", "i", "n", "i", "t", "i", "o", "n">>
      [] w = "definisi" -> <<"d", "e", "f", "i", "n", "i", "s", "i">>
      [] w = "means" -> <<"m", "e", "a", "n", "s">>
      [] w = "berarti" -> <<"b", "e", "r", "a", "r", "t", "i">>
      [] w = "refers" -> <<"r", "e", "f", "e", "r", "s">>
      [] w = "to" -> <<"t", "o">>
      [] w = "mengacu" -> <<"m", "e", "n", "g", "a", "c", "u">>
      [] w = "shall" -> <<"s", "h", "a", "l", "l">>
      [] w = "must" -> <<"m", "u", "s", "t">>
      [] w = "wajib" -> <<"w", "a", "j", "i", "b">>
      [] w = "harus" -> <<"h", "a", "r", "u", "s">>
      [] w = "required" -> <<"r", "e", "q", "u", "i", "r", "e", "d">>
      [] w = "diwajibkan" -> <<"d", "i", "w", "a", "j", "i", "b", "k", "a", "n">>
      [] w = "not" -> <<"n", "o", "t">>
      [] w = "tidak" -> <<"t", "i", "d", "a", "k">>
      [] w = "boleh" -> <<"b", "o", "l", "e", "h">>
      [] w = "dilarang" -> <<"d", "i", "l", "a", "r", "a", "n", "g">>
      [] w = "prohibited" -> <<"p", "r", "o", "h", "i", "b", "i", "t", "e", "d">>
      [] w = "procedure" -> <<"p", "r", "o", "c", "e", "d", "u", "r", "e">>
      [] w = "prosedur" -> <<"p", "r", "o", "s", "e", "d", "u", "r">>
      [] w = "process" -> <<"p", "r", "o", "c", "e", "s", "s">>
      [] w = "proses" -> <<"p", "r", "o", "s", "e", "s">>
      [] w = "steps" -> <<"s", "t", "e", "p", "s">>
      [] w = "langkah" -> <<"l", "a", "n", "g", "k", "a", "h">>
      [] w = "penalty" -> <<"p", "e", "n", "a", "l", "t", "y">>
      [] w = "sanksi" -> <<"s", "a", "n", "k", "s", "i">>
      [] w = "fine" -> <<"f", "i", "n", "e">>
      [] w = "denda" -> <<"d", "e", "n", "d", "a">>
      [] w = "punishment" -> <<"p", "u", "n", "i", "s", "h", "m", "e", "n", "t">>
      [] w = "hukuman" -> <<"h", "u", "k", "u", "m", "a", "n">>
      [] w = "right" -> <<"r", "i", "g", "h", "t">>
      [] w = "entitle" -> <<"e", "n", "t", "i", "t", "l", "e">>
      [] w = "berhak" -> <<"b", "e", "r", "h", "a", "k">>
      [] w = "may" -> <<"m", "a", "y">>
      [] w = "request" -> <<"r", "e", "q", "u", "e", "s", "t">>
      [] w = "dapat" -> <<"d", "a", "p", "a", "t">>
      [] w = "meminta" -> <<"m", "e", "m", "i", "n", "t", "a">>
      [] w = "GDPR.pdf" -> <<"G", "D", "P", "R", ".", "p", "d", "f">>
      [] w = "NIST.pdf" -> <<"N", "I", "S", "T", ".", "p", "d", "f">>
      [] w = "UU_PDP.pdf" -> <<"U", "U", "_", "P", "D", "P", ".", "p", "d", "f">>
      [] w = "POJK.pdf" -> <<"P", "O", "J", "K", ".", "p", "d", "f">>
      [] w = "BSSN_A.pdf" -> <<"B", "S", "S", "N", "_", "A", ".", "p", "d", "f">>
      [] w = "BSSN_B.pdf" -> <<"B", "S", "S", "N", "_", "B", ".", "p", "d", "f">>
      [] w = "BSSN_C.pdf" -> <<"B", "S", "S", "N", "_", "C", ".", "p", "d", "f">>
      [] w = "gdpr" -> <<"g", "d", "p", "r">>
      [] w = "nist" -> <<"n", "i", "s", "t">>
      [] w = "pdp" -> <<"p", "d", "p">>
      [] w = "perlindungan_data" -> <<"p", "e", "r", "l", "i", "n", "d", "u", "n", "g", "a", "n", "_", "d", "a", "t", "a">>
      [] w = "pojk" -> <<"p", "o", "j", "k">>
      [] w = "ojk" -> <<"o", "j", "k">>
      [] w = "bssn" -> <<"b", "s", "s", "n">>
      [] w = "Section" -> <<"S", "e", "c", "t", "i", "o", "n">>
      [] w = "Article" -> <<"A", "r", "t", "i", "c", "l", "e">>
      [] w = "article" -> <<"a", "r", "t", "i", "c", "l", "e">>
      [] w = "section" -> <<"s", "e", "c", "t", "i", "o", "n">>
      [] w = "pasal" -> <<"p", "a", "s", "a", "l">>
      [] w = "Pasal" -> <<"P", "a", "s", "a", "l">>
      [] w = "6" -> <<"6">>
      [] w = "26" -> <<"2", "6">>
      [] w = "sistem" -> <<"s", "i", "s", "t", "e", "m">>
      [] w = "elektronik" -> <<"e", "l", "e", "k", "t", "r", "o", "n", "i", "k">>
      [] w = "dilindungi" -> <<"d", "i", "l", "i", "n", "d", "u", "n", "g", "i">>
      [] w = "x" -> <<"x">>
      [] w = "Keamanan" -> <<"K", "e", "a", "m", "a", "n", "a", "n">>
      [] w = "keamanan," -> <<"k", "e", "a", "m", "a", "n", "a", "n", ",">>
      [] w = "" -> <<>>

\* F of the value of v, with the value computed once however often F uses it
Let(v, F(_)) == CHOOSE r \in {F(x) : x \in {v}} : TRUE

-----------------------------------------------------------------------------
(* Python floats: IEEE-754 binary64, every operation rounded to nearest,   *)
(* ties to even.  A float is [neg, m, e] and stands for                    *)
(* (-1)^neg * m * 2^e, where m is a natural number of exactly MantissaBits *)
(* bits, written as its limbs base Limb, lowest first; 0.0 has m = <<>>    *)
(* and e = 0.  The scores of the model are far from the subnormal and the  *)
(* overflow range, so the exponent is not bounded.                         *)

\* the width of the mantissa of a binary64
MantissaBits == 53

\* the limbs of a natural number of any size: 14 bits each
LimbBits == 14
Limb == 16384

RECURSIVE Pow2(_)
Pow2(n) == IF n = 0 THEN 1 ELSE 2 * Pow2(n - 1)

RECURSIVE SmallBitLen(_)
SmallBitLen(n) == IF n = 0 THEN 0 ELSE 1 + SmallBitLen(n \div 2)

\* a natural number below Limb * Limb as limbs
BFromInt(n) ==
    IF n = 0 THEN <<>> ELSE IF n < Limb THEN <<n>> ELSE <<n % Limb, n \div Limb>>

\* without the zero limbs at the high end
RECURSIVE BNorm(_)
BNorm(x) ==
    IF x = <<>> THEN x
    ELSE IF x[Len(x)] = 0 THEN BNorm(SubSeq(x, 1, Len(x) - 1)) ELSE x

BitLen(x) == IF x = <<>> THEN 0 ELSE LimbBits * (Len(x) - 1) + SmallBitLen(x[Len(x)])

\* x + y + c
RECURSIVE BAdd(_, _, _)
BAdd(x, y, c) ==
    IF x = <<>> /\ y = <<>> THEN BFromInt(c)
    ELSE IF x = <<>> THEN BAdd(y, x, c)
    ELSE LET s == Head(x) + (IF y = <<>> THEN 0 ELSE Head(y)) + c
         IN  <<s % Limb>> \o BAdd(Tail(x), IF y = <<>> THEN y ELSE Tail(y), s \div Limb)

\* x - y - b for x >= y + b, with the zero limbs at the high end
RECURSIVE BSubLimbs(_, _, _)
BSubLimbs(x, y, b) ==
    IF x = <<>> THEN <<>>
    ELSE LET d == Head(x) - (IF y = <<>> THEN 0 ELSE Head(y)) - b + Limb
         IN  <<d % Limb>> \o BSubLimbs(Tail(x), IF y = <<>> THEN y ELSE Tail(y),
                                       1 - d \div Limb)

BSub(x, y) == BNorm(BSubLimbs(x, y, 0))

\* -1, 0, 1 as x is below, equal to, above y
RECURSIVE BCmpFrom(_, _, _)
BCmpFrom(x, y, i) ==
    IF i = 0 THEN 0
    ELSE IF x[i] < y[i] THEN -1
    ELSE IF x[i] > y[i] THEN 1
    ELSE BCmpFrom(x, y, i - 1)

BCmp(x, y) ==
    IF Len(x) < Len(y) THEN -1
    ELSE IF Len(x) > Len(y) THEN 1
    ELSE BCmpFrom(x, y, Len(x))

\* x * s + c for 0 < s < Limb
RECURSIVE BMulSmall(_, _, _)
BMulSmall(x, s, c) ==
    IF x = <<>> THEN BFromInt(c)
    ELSE LET p == Head(x) * s + c
         IN  <<p % Limb>> \o BMulSmall(Tail(x), s, p \div Limb)

\* x * y, with the zero limbs at the high end
RECURSIVE BMulLimbs(_, _)
BMulLimbs(x, y) ==
    IF y = <<>> THEN <<>>
    ELSE LET low == IF Head(y) = 0 THEN <<>> ELSE BMulSmall(x, Head(y), 0)
         IN  IF Tail(y) = <<>> THEN low
             ELSE BAdd(low, <<0>> \o BMulLimbs(x, Tail(y)), 0)

\* [q, r] of x divided by d, 0 < d < Limb; q with the zero limbs at the high end
RECURSIVE BDivLimbs(_, _)
BDivLimbs(x, d) ==
    IF x = <<>> THEN [q |-> <<>>, r |-> 0]
    ELSE LET hi == BDivLimbs(Tail(x), d)
             cur == hi.r * Limb + Head(x)
         IN  [q |-> <<cur \div d>> \o hi.q, r |-> cur % d]

\* x * 2^n
BShl(x, n) ==
    IF x = <<>> THEN x
    ELSE [i \in 1..(n \div LimbBits) |-> 0] \o BMulSmall(x, Pow2(n % LimbBits), 0)

\* x \div 2^n
BShr(x, n) ==
    BNorm(BDivLimbs(SubSeq(x, n \div LimbBits + 1, Len(x)), Pow2(n % LimbBits)).q)

Float(neg, m, e) == [neg |-> neg, m |-> m, e |-> e]

FZero == Float(FALSE, <<>>, 0)

\* the float nearest to (-1)^neg * n * 2^e, n as limbs: a natural of more
\* than MantissaBits bits loses its low sh bits and is rounded on them, up
\* when they are above the half, to the even neighbour when they are the half
FRound(neg, n, e) ==
    IF n = <<>> THEN FZero
    ELSE LET sh == BitLen(n) - MantissaBits
             q == BShr(n, sh)
             c == BCmp(BSub(n, BShl(q, sh)), BShl(<<1>>, sh - 1))
             up == BAdd(q, <<>>, 1)
         IN  IF sh <= 0 THEN Float(neg, BShl(n, 0 - sh), e + sh)
             ELSE IF c > 0 \/ (c = 0 /\ q[1] % 2 = 1)
             THEN IF BitLen(up) > MantissaBits
                  THEN Float(neg, BShr(up, 1), e + sh + 1)
                  ELSE Float(neg, up, e + sh)
             ELSE Float(neg, q, e + sh)

\* python: a / b for naturals a < Limb and 0 < b < Limb; also the float a
\* decimal literal a/b denotes.  70 bits of the quotient are computed, and
\* one more that says whether a remainder is left, before it is rounded.
FDiv(a, b) ==
    IF a = 0 THEN FZero
    ELSE LET d == BDivLimbs(BShl(<<a>>, 70), b)
         IN  FRound(FALSE, BAdd(BShl(BNorm(d.q), 1), <<>>, IF d.r = 0 THEN 0 ELSE 1),
                    0 - 70 - 1)

FOne == FDiv(1, 1)

\* python: x * y
FMul(x, y) ==
    IF x.m = <<>> \/ y.m = <<>> THEN FZero
    ELSE FRound(x.neg # y.neg, BNorm(BMulLimbs(x.m, y.m)), x.e + y.e)

\* python: x + y
FAdd(x, y) ==
    IF x.m = <<>> THEN y
    ELSE IF y.m = <<>> THEN x
    ELSE LET e == Min(x.e, y.e)
             mx == BShl(x.m, x.e - e)
             my == BShl(y.m, y.e - e)
             c == BCmp(mx, my)
         IN  FRound(IF x.neg = y.neg \/ c > 0 THEN x.neg ELSE y.neg,
                    IF x.neg = y.neg THEN BAdd(mx, my, 0)
                    ELSE IF c > 0 THEN BSub(mx, my) ELSE BSub(my, mx),
                    e)

\* python: x - y
FSub(x, y) == FAdd(x, [y EXCEPT !.neg = ~@ /\ y.m # <<>>])

\* python: x < y
FLess(x, y) ==
    LET sign(z) == IF z.m = <<>> THEN 0 ELSE IF z.neg THEN -1 ELSE 1
        mag == IF x.e < y.e THEN -1 ELSE IF x.e > y.e THEN 1 ELSE BCmp(x.m, y.m)
    IN  IF sign(x) # sign(y) THEN sign(x) < sign(y) ELSE sign(x) * mag < 0

\* python: min(x, y)
FMin(x, y) == IF FLess(y, x) THEN y ELSE x

\* str.lower on a character sequence
LowerChars(cs) ==
    [i \in 1..Len(cs) |->
        IF \E k \in 1..26 : UpperAlpha[k] = cs[i]
        THEN LowerAlpha[CHOOSE k \in 1..26 : UpperAlpha[k] = cs[i]]
        ELSE cs[i]]

\* ' '.join of character sequences
RECURSIVE JoinWords(_)
JoinWords(spelled) ==
    IF spelled = <<>> THEN <<>>
    ELSE IF Len(spelled) = 1 THEN spelled[1]
    ELSE spelled[1] \o <<" ">> \o JoinWords(Tail(spelled))

\* the characters of a text given as words, joined by single blanks
TextChars(words) == JoinWords([i \in 1..Len(words) |-> Spell(words[i])])

\* the least element of a set of numbers
First(S) == CHOOSE i \in S : \A j \in S : i <= j

\* python: pat in text, on character sequences
MatchesAt(pat, text, p) ==
    /\ p + Len(pat) - 1 <= Len(text)
    /\ \A j \in 1..Len(pat) : text[p + j - 1] = pat[j]

IsSubstring(pat, text) == \E p \in 1..(Len(text) + 1) : MatchesAt(pat, text, p)

\* str.lower().split() of a text, as the set python builds from it
LowerWords(words) == {LowerChars(Spell(words[i])) : i \in 1..Len(words)}

-----------------------------------------------------------------------------
(* The static catalog *)

\* self.standards_mapping, in the order of the dict
StandardIds == <<"GDPR", "NIST", "UU_PDP", "POJK", "BSSN">>

standards_mapping(s) ==
    CASE s = "GDPR"   -> [files |-> <<"GDPR.pdf">>, category |-> "Global"]
      [] s = "NIST"   -> [files |-> <<"NIST.pdf">>, category |-> "Global"]
      [] s = "UU_PDP" -> [files |-> <<"UU_PDP.pdf">>, category |-> "Nasional"]
      [] s = "POJK"   -> [files |-> <<"POJK.pdf">>, category |-> "Nasional"]
      [] s = "BSSN"   -> [files |-> <<"BSSN_A.pdf", "BSSN_B.pdf", "BSSN_C.pdf">>,
                          category |-> "Nasional"]

InMapping(s) == s \in Range(StandardIds)

\* the substrings of the fuzzy matching and the standard each stands for, in
\* the order of the elif chain
fuzzy_patterns ==
    << <<"gdpr", "GDPR">>, <<"nist", "NIST">>, <<"pdp", "UU_PDP">>,
       <<"perlindungan_data", "UU_PDP">>, <<"pojk", "POJK">>, <<"ojk", "POJK">>,
       <<"bssn", "BSSN">> >>

\* _get_ui_standard_from_filename: the direct mapping, then the fuzzy matching
get_ui_standard_from_filename(filename) ==
    Let(LowerChars(Spell(filename)),
        LAMBDA filename_lower :
            Let({i \in 1..Len(StandardIds) :
                    \E pdf_file \in Range(standards_mapping(StandardIds[i]).files) :
                        LowerChars(Spell(pdf_file)) = filename_lower},
                LAMBDA direct :
                    Let({i \in 1..Len(fuzzy_patterns) :
                            IsSubstring(Spell(fuzzy_patterns[i][1]), filename_lower)},
                        LAMBDA fuzzy :
                            IF direct # {} THEN StandardIds[First(direct)]
                            ELSE IF fuzzy # {} THEN fuzzy_patterns[First(fuzzy)][2]
                            ELSE "Unknown")))

-----------------------------------------------------------------------------
(* The environment: files and their text *)

\* os.path.join(standards_dir, category, pdf_file) and the two alternative paths
CanonicalPath(category, file) == <<"standards", category, file>>
AltPaths(file) == << <<"standards", file>>, <<file>> >>

\* What fitz and _clean_extracted_text and _create_smart_chunks give for a
\* readable file: per page the length of the cleaned text and the chunks
\* (none for a page too short to be chunked).
PdfPages(filename) ==
    CASE filename = "GDPR.pdf" ->
           << [clean_len |-> 1300,
               chunks |-> << [words |-> <<"Article", "6", "data">>, len |-> 640],
                             [words |-> <<"Article", "6", "Keamanan", "data", "shall">>,
                              len |-> 659] >>] >>
      [] filename = "UU_PDP.pdf" ->
           << [clean_len |-> 300,
               chunks |-> << [words |-> <<"Pasal", "26", "data", "pribadi", "harus",
                                          "dilindungi">>, len |-> 300] >>],
              [clean_len |-> 80, chunks |-> <<>>],
              [clean_len |-> 120,
               chunks |-> << [words |-> <<"sistem", "elektronik">>, len |-> 120] >>] >>
      [] OTHER -> <<>>

\* the files that exist in some file system of the model
ModelFiles == {"GDPR.pdf", "UU_PDP.pdf"}

\* The file systems the agent may run on.
GdprCanon == CanonicalPath("Global", "GDPR.pdf")

\* ok are the paths of the readable files and corrupt those of the files
\* fitz cannot open, and listdir is the order in which os.listdir reports
\* the names, which python leaves to the file system.  UU_PDP.pdf is at
\* its canonical path and GDPR.pdf at its canonical or at an alternative
\* path, or both are in the directory of the category 'Global', which
\* os.listdir reports in either order; the order is of no effect where no
\* directory has two files.
FsConfigs ==
    LET alt == AltPaths("GDPR.pdf")
        pdp == CanonicalPath("Nasional", "UU_PDP.pdf")
        order == <<"GDPR.pdf", "UU_PDP.pdf">>
    IN  { [dir_exists |-> FALSE, ok |-> {alt[2]}, corrupt |-> {}, listdir |-> order],
          [dir_exists |-> TRUE, ok |-> {GdprCanon, pdp}, corrupt |-> {}, listdir |-> order],
          [dir_exists |-> TRUE, ok |-> {alt[1], pdp}, corrupt |-> {}, listdir |-> order],
          [dir_exists |-> TRUE, ok |-> {alt[1], pdp}, corrupt |-> {GdprCanon},
           listdir |-> order],
          [dir_exists |-> TRUE, ok |-> {alt[2], pdp}, corrupt |-> {alt[1]},
           listdir |-> order] }
        \cup { [dir_exists |-> TRUE,
                ok |-> {GdprCanon, CanonicalPath("Global", "UU_PDP.pdf")},
                corrupt |-> {}, listdir |-> o] :
                  o \in {order, <<"UU_PDP.pdf", "GDPR.pdf">>} }

-----------------------------------------------------------------------------
(* Chunk annotation *)

\* the decimal digits of a page number
PageDigits(n) ==
    LET digit(k) == <<"0","1","2","3","4","5","6","7","8","9">>[k + 1]
    IN  IF n < 10 THEN <<digit(n)>> ELSE <<digit(n \div 10), digit(n % 10)>>

RECURSIVE SkipWhile(_, _, _)
\* the first position from p on whose character is not in the class
SkipWhile(text, p, class) ==
    IF p <= Len(text) /\ text[p] \in class THEN SkipWhile(text, p + 1, class) ELSE p

\* where the number of a match of kind k at position p starts
NumberStart(text, p, k) == SkipWhile(text, p + Len(k), {" "})

\* the match at position p of kind pk[2]: [found, kind, number]
SectionMatch(text, pk) ==
    [found |-> TRUE,
     kind |-> pk[2][1],
     number |-> SubSeq(text, NumberStart(text, pk[1], pk[2][2]),
                       SkipWhile(text, SkipWhile(text, NumberStart(text, pk[1], pk[2][2]),
                                                 Digits),
                                 Range(UpperAlpha) \cup Range(LowerAlpha)) - 1)]

\* re.search(r'(K1|K2)\s*(\d+[A-Za-z]*)', chunk, re.IGNORECASE): the leftmost
\* match, as [found, kind, number]; kind is group(1).capitalize()
SectionSearch(kinds, text) ==
    Let({pk \in (1..Len(text)) \X {<<k, LowerChars(Spell(k))>> : k \in kinds} :
            /\ MatchesAt(pk[2][2], LowerChars(text), pk[1])
            /\ NumberStart(text, pk[1], pk[2][2]) <= Len(text)
            /\ text[NumberStart(text, pk[1], pk[2][2])] \in Digits},
        LAMBDA hits :
            IF hits = {} THEN [found |-> FALSE, kind |-> "", number |-> <<>>]
            ELSE SectionMatch(text, CHOOSE x \in hits : \A y \in hits : x[1] <= y[1]))

\* the string "kind number" of a match, as a pair
MatchReference(m) == <<m.kind, m.number>>

\* lines 260-268: article_match after the two searches; a section reference
\* is a pair <<kind, number>> standing for the string "kind number", and <<>>
\* stands for None
SectionReference(chunk) ==
    Let(SectionSearch({"Article", "Section"}, chunk),
        LAMBDA match :
            Let(SectionSearch({"Pasal"}, chunk),
                LAMBDA match_id :
                    IF match_id.found THEN MatchReference(match_id)
                    ELSE IF match.found THEN MatchReference(match)
                    ELSE <<>>))

\* lines 269-271: the page stands in when no section reference was found
ExtractArticle(article_match, page_num) ==
    IF article_match = <<>> THEN <<"Page", PageDigits(page_num)>> ELSE article_match

\* _extract_keywords_from_chunk: the vocabulary, in the order of the list
important_keywords ==
    <<"data", "pribadi", "personal", "consent", "persetujuan", "processing", "pengolahan",
      "security", "keamanan", "privacy", "privasi", "rights", "hak", "protection",
      "perlindungan", "breach", "pelanggaran", "controller", "pengendali", "processor",
      "pemroses", "transfer", "storage", "penyimpanan", "retention", "retensi", "deletion",
      "penghapusan", "audit", "compliance", "kepatuhan", "regulation", "regulasi", "law",
      "hukum">>

\* the tag limit of line 334
MaxKeywords == 10

\* the tags without the limit of line 334
ExtractAllKeywords(chunk) ==
    SelectSeq(important_keywords, LAMBDA kw : IsSubstring(Spell(kw), LowerChars(chunk)))

\* _extract_keywords_from_chunk: the tags, as the list that is comma-joined
extract_keywords_from_chunk(chunk) ==
    Take(SelectSeq(important_keywords,
                   LAMBDA kw : IsSubstring(Spell(kw), LowerChars(chunk))),
         MaxKeywords)

\* _identify_section_type: the pattern groups, in the order of the dict
section_patterns ==
    << <<"definition", << <<"definition">>, <<"definisi">>, <<"means">>, <<"berarti">>,
                          <<"refers", "to">>, <<"mengacu">> >> >>,
       <<"obligation", << <<"shall">>, <<"must">>, <<"wajib">>, <<"harus">>,
                          <<"required">>, <<"diwajibkan">> >> >>,
       <<"prohibition", << <<"shall", "not">>, <<"must", "not">>, <<"tidak", "boleh">>,
                           <<"dilarang">>, <<"prohibited">> >> >>,
       <<"procedure", << <<"procedure">>, <<"prosedur">>, <<"process">>, <<"proses">>,
                         <<"steps">>, <<"langkah">> >> >>,
       <<"penalty", << <<"penalty">>, <<"sanksi">>, <<"fine">>, <<"denda">>,
                       <<"punishment">>, <<"hukuman">> >> >>,
       <<"right", << <<"right">>, <<"hak">>, <<"entitle">>, <<"berhak">>,
                     <<"may", "request">>, <<"dapat", "meminta">> >> >> >>

\* the classification with the groups tried from the last to the first
IdentifyLastSectionType(chunk) ==
    Let({g \in 1..Len(section_patterns) :
            \E pattern \in Range(section_patterns[g][2]) :
                IsSubstring(TextChars(pattern), LowerChars(chunk))},
        LAMBDA groups : IF groups = {} THEN "general"
                        ELSE section_patterns[CHOOSE g \in groups :
                                                 \A h \in groups : h <= g][1])

\* _identify_section_type: the first group, in the order of the dict, one of
\* whose patterns is in the lowercased chunk
identify_section_type(chunk) ==
    Let({g \in 1..Len(section_patterns) :
            \E pattern \in Range(section_patterns[g][2]) :
                IsSubstring(TextChars(pattern), LowerChars(chunk))},
        LAMBDA groups : IF groups = {} THEN "general"
                        ELSE section_patterns[First(groups)][1])

\* the chunk texts of the model's files
ChunkTexts ==
    UNION { UNION { {c.words : c \in Range(PdfPages(file)[p].chunks)}
                    : p \in 1..Len(PdfPages(file)) } : file \in ModelFiles }

\* what lines 260-285 derive from the text of a chunk
Annotate(chunk) ==
    [ keywords |-> extract_keywords_from_chunk(chunk),
      section_type |-> identify_section_type(chunk),
      section |-> SectionReference(chunk) ]

\* the annotations of every chunk text, computed once
Annotations ==
    [ words \in ChunkTexts |-> Let(TextChars(words), LAMBDA chunk : Annotate(chunk)) ]

\* _identify_standard_type, which returns what _get_ui_standard_from_filename
\* returns, for the files of the model, computed once
StandardTypes == [file \in ModelFiles |-> get_ui_standard_from_filename(file)]

\* the metadata record of lines 272-286 (the fields the retrieval reads),
\* given the annotations of the chunk
MetadataOf(filename, category, page_num, i, ui_standard, text_length, found) ==
    [ source |-> filename,
      category |-> category,
      page |-> page_num,
      chunk |-> i,
      standard_type |-> StandardTypes[filename],
      ui_standard |-> ui_standard,
      text_length |-> text_length,
      keywords |-> found.keywords,
      section_type |-> found.section_type,
      article |-> ExtractArticle(found.section, page_num) ]

\* the metadata record of a chunk of the model's files
Metadata(filename, category, page_num, i, ui_standard, chunk) ==
    Let(Annotations[chunk.words],
        LAMBDA found : MetadataOf(filename, category, page_num, i, ui_standard,
                                  chunk.len, found))

\* chunk_id of line 257, without the instance suffix every id of one agent shares
ChunkId(filename, page_num, i) == <<filename, page_num, i>>

\* the page cap of line 246
MaxPages == 15

\* the page and chunk thresholds of lines 252 and 256
MinPageLen == 100
MinChunkLen == 50

\* The entries _load_pdf_standard_enhanced builds for one readable file, in
\* the order it stores them: page by page, chunk by chunk.
FileEntries(filename, category, ui_standard) ==
    LET pages == PdfPages(filename)
        max_pages == Min(Len(pages), MaxPages)
        ofPage(p) ==
            IF pages[p].clean_len > MinPageLen
            THEN LET cs == pages[p].chunks
                     keep == SelectSeq([i \in 1..Len(cs) |-> i],
                                       LAMBDA i : cs[i].len > MinChunkLen)
                 IN  [k \in 1..Len(keep) |->
                        [ id |-> ChunkId(filename, p, keep[k]),
                          document |-> cs[keep[k]].words,
                          metadata |-> Metadata(filename, category, p, keep[k],
                                                ui_standard, cs[keep[k]]) ]]
            ELSE <<>>
    IN  Concat([p \in 1..max_pages |-> ofPage(p)])

-----------------------------------------------------------------------------
(* The two stores *)

\* BaseAgent.set_status on the agent record
set_status(a, new_status) ==
    [a EXCEPT !.status = new_status,
              !.error_count = IF new_status = "error" THEN @ + 1 ELSE @]

\* python: d.setdefault(k, []).append(v)
DictAppend(d, k, v) ==
    IF k \in DOMAIN d THEN [d EXCEPT ![k] = Append(@, v)] ELSE d @@ (k :> <<v>>)

NoCollection == [is_none |-> TRUE, items |-> <<>>]
NoFallback ==
    [exists |-> FALSE, documents |-> <<>>, metadatas |-> <<>>, ids |-> <<>>,
     standards_index |-> [k \in {} |-> <<>>], keyword_index |-> [k \in {} |-> <<>>]]

\* _create_enhanced_fallback_storage: the fields it assigns.  An agent is the
\* record [collection, fallback_storage, standards_loaded, status, ingested].
create_enhanced_fallback_storage(a) ==
    [a EXCEPT !.fallback_storage = [NoFallback EXCEPT !.exists = TRUE],
              !.collection = NoCollection]

\* collection.add of one entry (lines 288-300): an id the collection holds
\* already is refused by the collection and the refusal is swallowed
CollectionAdd(col, e, embedding) ==
    IF \E i \in 1..Len(col.items) : col.items[i].id = e.id
    THEN col
    ELSE [col EXCEPT !.items = Append(@, [id |-> e.id, document |-> e.document,
                                          metadata |-> e.metadata,
                                          embedding |-> embedding])]

\* the mutant of the fallback branch: the position is taken after the append
\* and counted from 1
FallbackAddCountingFromOne(fb, e, ui_standard) ==
    [fb EXCEPT !.documents = Append(@, e.document),
               !.metadatas = Append(@, e.metadata),
               !.ids = Append(@, e.id),
               !.standards_index = DictAppend(@, ui_standard, Len(fb.documents) + 1)]

\* the fallback branch of lines 301-312
FallbackAdd(fb, e, ui_standard) ==
    [fb EXCEPT !.documents = Append(@, e.document),
               !.metadatas = Append(@, e.metadata),
               !.ids = Append(@, e.id),
               !.standards_index = DictAppend(@, ui_standard, Len(fb.documents))]

\* the mutant of the store: nothing is stored once _standards_loaded is set
StoreChunkOnce(a, e, ui_standard, emb) ==
    IF a.standards_loaded THEN a
    ELSE IF ~a.collection.is_none
         THEN [a EXCEPT !.collection = CollectionAdd(@, e, emb[e.document])]
         ELSE [a EXCEPT !.fallback_storage = FallbackAdd(@, e, ui_standard)]

\* lines 287-312: store one chunk in the collection or in the fallback storage
StoreChunk(a, e, ui_standard, emb) ==
    IF ~a.collection.is_none
    THEN [a EXCEPT !.collection = CollectionAdd(@, e, emb[e.document])]
    ELSE LET b == IF ~a.fallback_storage.exists
                  THEN create_enhanced_fallback_storage(a) ELSE a
         IN  [b EXCEPT !.fallback_storage = FallbackAdd(@, e, ui_standard)]

RECURSIVE StoreChunks(_, _, _, _)
StoreChunks(a, es, ui_standard, emb) ==
    IF es = <<>> THEN a
    ELSE Let(StoreChunk(a, Head(es), ui_standard, emb),
             LAMBDA b : StoreChunks(b, Tail(es), ui_standard, emb))

\* _load_pdf_standard_enhanced: [agent, success].  A corrupt file makes
\* fitz.open raise, which the method turns into False.
load_pdf_standard_enhanced(a, f, emb, filepath, category, filename, ui_standard) ==
    IF filepath \in f.corrupt
    THEN [agent |-> a, success |-> FALSE]
    ELSE Let(FileEntries(filename, category, ui_standard),
             LAMBDA es : [agent |-> [StoreChunks(a, es, ui_standard, emb)
                                       EXCEPT !.ingested = @ \cup {filename}],
                          success |-> TRUE])

\* lines 359-366: one more pass over all metadatas, appending to the index
RECURSIVE IndexKeywords(_, _, _)
IndexKeywords(kidx, i, keywords) ==
    IF keywords = <<>> THEN kidx
    ELSE Let(IF Head(keywords) # "" THEN DictAppend(kidx, Head(keywords), i) ELSE kidx,
             LAMBDA next : IndexKeywords(next, i, Tail(keywords)))

RECURSIVE IndexMetadatas(_, _, _)
IndexMetadatas(kidx, metadatas, i) ==
    IF i >= Len(metadatas) THEN kidx
    ELSE Let(IndexKeywords(kidx, i, metadatas[i + 1].keywords),
             LAMBDA next : IndexMetadatas(next, metadatas, i + 1))

\* _build_enhanced_indexes: [agent, raised].  Line 368 reads
\* self.fallback_storage, an attribute an agent on the primary backend has not.
build_enhanced_indexes(a) ==
    LET fb == a.fallback_storage
        b == IF fb.exists /\ fb.documents # <<>>
             THEN Let(fb.keyword_index,
                      LAMBDA kidx : [a EXCEPT !.fallback_storage.keyword_index =
                                                  IndexMetadatas(kidx, fb.metadatas, 0)])
             ELSE a
    IN  [agent |-> b, raised |-> ~fb.exists]

-----------------------------------------------------------------------------
(* Ingestion *)

\* the paths of lines 172-196 that exist are opened in turn until one loads:
\* [agent, loaded]
RECURSIVE TryPaths(_, _, _, _, _, _, _)
TryPaths(a, f, emb, paths, category, pdf_file, standard) ==
    IF paths = <<>> THEN [agent |-> a, loaded |-> 0]
    ELSE Let(load_pdf_standard_enhanced(a, f, emb, Head(paths), category, pdf_file,
                                        standard),
             LAMBDA r : IF r.success THEN [agent |-> r.agent, loaded |-> 1]
                        ELSE TryPaths(r.agent, f, emb, Tail(paths), category, pdf_file,
                                      standard))

\* lines 171-209 for one source file of a standard: the canonical path when
\* it exists, the alternative paths that exist otherwise; [agent, loaded,
\* errors], errors what the file adds to processing_errors (lines 182, 207)
LoadOneFile(a, f, emb, standard, pdf_file) ==
    LET category == standards_mapping(standard).category
        filepath == CanonicalPath(category, pdf_file)
        exists == filepath \in f.ok \cup f.corrupt
        errors(r) == IF r.loaded = 1 THEN <<>>
                     ELSE IF exists THEN <<<<"Failed to process", pdf_file>>>>
                     ELSE <<<<"File not found:">> \o filepath>>
    IN  Let(TryPaths(a, f, emb,
                     IF exists THEN <<filepath>>
                     ELSE SelectSeq(AltPaths(pdf_file), LAMBDA p : p \in f.ok \cup f.corrupt),
                     category, pdf_file, standard),
            LAMBDA r : [agent |-> r.agent, loaded |-> r.loaded, errors |-> errors(r)])

\* what the loops of lines 166-171 visit, in order: <<standard, file>> for a
\* file of a catalog standard, <<standard>> for an id the catalog has not
LoadTasks(selected_standards) ==
    Concat([i \in 1..Len(selected_standards) |->
              IF InMapping(selected_standards[i])
              THEN LET fl == standards_mapping(selected_standards[i]).files
                   IN  [j \in 1..Len(fl) |-> <<selected_standards[i], fl[j]>>]
              ELSE <<<<selected_standards[i]>>>>])

RECURSIVE LoadFiles(_, _, _, _, _, _)
\* [agent, loaded_count, processing_errors] after the loops of lines 166-212
LoadFiles(a, f, emb, tasks, loaded_count, processing_errors) ==
    IF tasks = <<>>
    THEN [agent |-> a, loaded_count |-> loaded_count,
          processing_errors |-> processing_errors]
    ELSE IF Len(Head(tasks)) = 1
    THEN LoadFiles(a, f, emb, Tail(tasks), loaded_count,
                   Append(processing_errors, <<"Unknown standard:", Head(tasks)[1]>>))
    ELSE Let(LoadOneFile(a, f, emb, Head(tasks)[1], Head(tasks)[2]),
             LAMBDA r : LoadFiles(r.agent, f, emb, Tail(tasks), loaded_count + r.loaded,
                                  processing_errors \o r.errors))

\* load_selected_standards: [agent, value, files, errors], value the int
\* returned, files the number of source files the call ingested and errors
\* the list processing_errors the call built
load_selected_standards(a0, f, emb, selected_standards) ==
    LET a == set_status(a0, "loading_selected_standards")
    IN  IF selected_standards = <<>> \/ ~f.dir_exists
        THEN [agent |-> a, value |-> 0, files |-> 0, errors |-> <<>>]
        ELSE LET done(r, b) == [agent |-> b.agent,
                                value |-> IF b.raised THEN 0 ELSE r.loaded_count,
                                files |-> r.loaded_count,
                                errors |-> r.processing_errors]
                 build(r) ==
                     Let(build_enhanced_indexes([r.agent EXCEPT !.standards_loaded = TRUE]),
                         LAMBDA b : done(r, b))
             IN  Let(LoadFiles(a, f, emb, LoadTasks(selected_standards), 0, <<>>),
                     LAMBDA r : build(r))

RECURSIVE LoadDirFiles(_, _, _, _, _)
\* lines 615-632 for the .pdf files of one category directory, in the
\* order os.listdir gives them; r is [agent, loaded_count]
LoadDirFiles(r, f, emb, category, files) ==
    IF files = <<>> THEN r
    ELSE LET filename == Head(files)
             ui_standard == get_ui_standard_from_filename(filename)
         IN  Let(load_pdf_standard_enhanced(r.agent, f, emb,
                                            CanonicalPath(category, filename),
                                            category, filename, ui_standard),
                 LAMBDA l : LoadDirFiles([agent |-> l.agent,
                                          loaded_count |-> IF l.success
                                                           THEN r.loaded_count + 1
                                                           ELSE r.loaded_count],
                                         f, emb, category, Tail(files)))

\* the loop of line 609 over the category directories, each with the .pdf
\* files os.listdir gives for it, in its order; r is [agent, loaded_count]
RECURSIVE LoadCategories(_, _, _, _)
LoadCategories(r, f, emb, categories) ==
    IF categories = <<>> THEN r
    ELSE Let(LoadDirFiles(r, f, emb, Head(categories),
                          SelectSeq(f.listdir,
                                    LAMBDA filename :
                                        CanonicalPath(Head(categories), filename)
                                            \in f.ok \cup f.corrupt)),
             LAMBDA b : LoadCategories(b, f, emb, Tail(categories)))

\* lines 634-642: the flag is set, the indexes are built, and the count is
\* returned unless the build raised: [agent, value, files]
FinishDirectoryLoad(r) ==
    Let(build_enhanced_indexes([r.agent EXCEPT !.standards_loaded = TRUE]),
        LAMBDA b : [agent |-> b.agent,
                    value |-> IF b.raised THEN 0 ELSE r.loaded_count,
                    files |-> r.loaded_count])

\* the mutant of load_standards_from_directory: the flag is not looked at
LoadFromDirectoryAgain(a, f, emb) ==
    Let(LoadCategories([agent |-> set_status(a, "loading_standards"), loaded_count |-> 0],
                       f, emb, <<"Global", "Nasional">>),
        LAMBDA r : FinishDirectoryLoad(r))

\* load_standards_from_directory("standards"): [agent, value, files], value
\* the int returned and files the number of source files the call ingested
load_standards_from_directory(a, f, emb) ==
    IF a.standards_loaded THEN [agent |-> a, value |-> 0, files |-> 0]
    ELSE Let(LoadCategories([agent |-> set_status(a, "loading_standards"),
                             loaded_count |-> 0],
                            f, emb, <<"Global", "Nasional">>),
             LAMBDA r : FinishDirectoryLoad(r))

\* _load_standards_if_needed
load_standards_if_needed(a, f, emb) ==
    IF a.standards_loaded THEN a
    ELSE IF f.dir_exists THEN load_standards_from_directory(a, f, emb).agent
    ELSE [a EXCEPT !.standards_loaded = TRUE]

-----------------------------------------------------------------------------
(* Relevance scoring *)

\* the float a decimal literal of two decimals denotes, given in hundredths
Literal(hundredths) == FDiv(hundredths, 100)

\* the literals of line 557: 0.15 and 0.05

\* the length at which the text-quality factor saturates (line 561)
OptimalLength == 500

\* the base score of the fallback query (line 496): 0.5
FallbackBaseScore == Literal(50)

\* the score a chunk of the fallback storage must exceed (line 498): 0.1
InclusionThreshold == Literal(10)

\* the queries callers pass, as word sequences
Queries == { <<"Keamanan", "data">>, <<"x">> }

\* the query of the ranking scenario, and the texts of its two chunks: one
\* has the word "keamanan", alone or with a comma after it, the other has no
\* word of the query; either may have a phrase of the group 'obligation'
ScenarioQuery == <<"keamanan", "data">>

WithKeamanan ==
    { <<"keamanan", "dilindungi">>, <<"keamanan,", "dilindungi">>,
      <<"keamanan", "dilindungi", "harus">>, <<"keamanan,", "dilindungi", "harus">> }

WithoutOverlap == { <<"sistem", "elektronik">>, <<"sistem", "elektronik", "harus">> }

\* the text lengths of the chunks of the ranking scenario: each chunk is the
\* cleaned text of its page, which line 252 wants longer than 100
\* characters and which is one chunk up to 2 x chunk_size characters
ScenarioLengths == {120, 500}

\* An embedding is a unit vector at an angle of 0, 45, .. 180 degrees, given
\* as the multiple of 45.  The distance the collection reports is the squared
\* L2 distance, 2 - 2 cos of the angle between the two, in hundredths.
SquaredL2 == <<0, 59, 200, 341, 400>>

\* set(text.lower().split()) of every text of the model, computed once
WordSets ==
    [t \in Queries \cup ChunkTexts \cup {ScenarioQuery} \cup WithKeamanan \cup WithoutOverlap |->
        LowerWords(t)]

\* the queries of the score comparison: each has terms of the vocabulary,
\* and the second has two words that are in one tag
ComparedQueries == { <<"keamanan", "data">>, <<"data", "right", "rights">> }

\* python: word in kw.lower(), for the query words and the tags, computed once
WordInTag ==
    [ w \in UNION {LowerWords(q) : q \in Queries \cup ComparedQueries},
      kw \in Range(important_keywords) \cup {""} |->
        IsSubstring(w, LowerChars(Spell(kw))) ]

\* metadata.get('keywords', '').lower().split(','): '' splits into ['']
SplitKeywords(keywords) == IF keywords = <<>> THEN <<"">> ELSE keywords

\* line 547: how many query words are words of the document
KeywordOverlap(query_words, doc_words) == Cardinality(query_words \cap doc_words)

\* line 552: how many query words occur in a tag
MetadataMatches(query_words, metadata_keywords) ==
    Cardinality({w \in query_words : \E kw \in Range(metadata_keywords) : WordInTag[w, kw]})

\* Factor 1 (lines 547-548): the share of the n_words query words the
\* document has, times 0.4
KeywordScore(overlap, n_words) ==
    IF n_words # 0 THEN FMul(FDiv(overlap, n_words), Literal(40)) ELSE FZero

\* Factor 2 (lines 552-553): the share of the query words that occur in a
\* tag, times 0.2
MetadataScore(matches, n_words) ==
    IF n_words # 0 THEN FMul(FDiv(matches, n_words), Literal(20)) ELSE FZero

\* the two values of factor 3 (line 557): 0.15 and 0.05, computed once
SectionBonuses == [high |-> Literal(15), low |-> Literal(5)]

\* the mutant of factor 3: no bonus
NoSectionBonus(section_type) == FZero

\* Factor 3 (lines 556-557)
SectionBonus(section_type) ==
    IF section_type \in {"obligation", "procedure", "right"}
    THEN SectionBonuses.high ELSE SectionBonuses.low

\* lines 567-569: the sum of the five factors, left to right, and
\* min(total_score, 1.0)
TotalScore(keyword_score, metadata_score, section_bonus, length_score, semantic_score) ==
    FMin(FAdd(FAdd(FAdd(FAdd(keyword_score, metadata_score), section_bonus),
                   length_score),
              semantic_score),
         FOne)

\* 1 - distance (line 434) for the distances the collection reports,
\* computed once
SemanticSimilarity == [d \in Range(SquaredL2) |-> FSub(FOne, Literal(d))]

\* what the scores of the model are computed from: the counts of query
\* words, the text lengths and the base scores
WordCounts == {Cardinality(WordSets[q]) : q \in Queries \cup {ScenarioQuery}}

TextLengths ==
    ScenarioLengths
        \cup UNION { UNION { {c.len : c \in Range(PdfPages(file)[p].chunks)}
                             : p \in 1..Len(PdfPages(file)) } : file \in ModelFiles }

BaseScores == {FallbackBaseScore} \cup {SemanticSimilarity[d] : d \in Range(SquaredL2)}

\* the counts lines 547 and 552 can give
MatchCounts == 0..(CHOOSE n \in WordCounts : \A k \in WordCounts : k <= n)

\* the factors of the scores of the model, computed once
KeywordScores == [overlap \in MatchCounts, n_words \in WordCounts |-> KeywordScore(overlap, n_words)]

MetadataScores ==
    [matches \in MatchCounts, n_words \in WordCounts |-> MetadataScore(matches, n_words)]

\* Factor 4 (lines 560-561): min(text_length / 500, 1.0) * 0.1
LengthScore ==
    [text_length \in TextLengths |->
        FMul(FMin(FDiv(text_length, OptimalLength), FOne), Literal(10))]

\* Factor 5 (line 564): base_score * 0.15
SemanticScore == [base_score \in BaseScores |-> FMul(base_score, Literal(15))]

\* the scores of the model, computed once
Scores ==
    [ overlap \in MatchCounts, matches \in MatchCounts, n_words \in WordCounts,
      section_bonus \in {SectionBonus(section_patterns[g][1]) : g \in DOMAIN section_patterns}
                            \cup {SectionBonus("general")},
      text_length \in TextLengths,
      base_score \in BaseScores |->
        TotalScore(KeywordScores[overlap, n_words], MetadataScores[matches, n_words],
                   section_bonus, LengthScore[text_length], SemanticScore[base_score]) ]

\* _calculate_enhanced_relevance; query and document are word sequences
calculate_enhanced_relevance(query, document, metadata, base_score) ==
    Scores[KeywordOverlap(WordSets[query], WordSets[document]),
           MetadataMatches(WordSets[query], SplitKeywords(metadata.keywords)),
           Cardinality(WordSets[query]),
           SectionBonus(metadata.section_type), metadata.text_length, base_score]

-----------------------------------------------------------------------------
(* The query paths *)

\* list.sort(key=relevance_score, reverse=True): stable, descending
RECURSIVE InsertByScore(_, _)
InsertByScore(sorted, x) ==
    IF sorted = <<>> THEN <<x>>
    ELSE IF ~FLess(Head(sorted).relevance_score, x.relevance_score)
         THEN <<Head(sorted)>> \o InsertByScore(Tail(sorted), x)
         ELSE <<x>> \o sorted

RECURSIVE SortByScoreTo(_, _)
SortByScoreTo(items, n) ==
    IF n = 0 THEN <<>>
    ELSE Let(SortByScoreTo(items, n - 1), LAMBDA sorted : InsertByScore(sorted, items[n]))

SortByScore(items) == SortByScoreTo(items, Len(items))

\* the mutant of the truncation: nothing is cut
KeepAll(items, top_k) == items

\* lines 455 and 518: items[:top_k]
TopK(items, top_k) == Take(items, top_k)

\* one item of the 'standards' list (lines 438-451, 500-512)
ResultItem(rank, doc, metadata, relevance_score) ==
    [ rank |-> rank,
      content |-> doc,
      source |-> metadata.source,
      article |-> metadata.article,
      ui_standard |-> metadata.ui_standard,
      section_type |-> metadata.section_type,
      relevance_score |-> relevance_score,
      text_length |-> metadata.text_length ]

\* the mutant of the return value: an empty list is reported as a failure
FailureWhenEmpty(standards, method, has_message, has_error) ==
    [ success |-> standards # <<>>, standards |-> standards, method |-> method,
      has_message |-> has_message, has_error |-> has_error ]

\* a return value of process
QueryResult(standards, method, has_message, has_error) ==
    [ success |-> TRUE, standards |-> standards, method |-> method,
      has_message |-> has_message, has_error |-> has_error ]

\* the mutant of the filter: every chunk passes
PassAll(selected_standards, metadata) == TRUE

\* line 491: the chunk is scanned unless standards are selected and its
\* standard is not among them
PassesFilter(selected_standards, metadata) ==
    ~(selected_standards # <<>> /\ metadata.ui_standard \notin Range(selected_standards))

RECURSIVE FallbackMatches(_, _, _, _, _)
\* the scan of lines 486-512 from position i on
FallbackMatches(fb, query, selected_standards, i, matches) ==
    IF i > Len(fb.documents) THEN matches
    ELSE LET doc == fb.documents[i]
             metadata == fb.metadatas[i]
             relevance_score ==
                 calculate_enhanced_relevance(query, doc, metadata, FallbackBaseScore)
         IN  Let(IF PassesFilter(selected_standards, metadata)
                    /\ FLess(InclusionThreshold, relevance_score)
                 THEN Append(matches,
                             ResultItem(Len(matches) + 1, doc, metadata, relevance_score))
                 ELSE matches,
                 LAMBDA next : FallbackMatches(fb, query, selected_standards, i + 1, next))

\* _enhanced_fallback_query: [agent, result]
enhanced_fallback_query(a, query, top_k, selected_standards) ==
    LET fb == a.fallback_storage
    IN  IF ~fb.exists \/ fb.documents = <<>>
        THEN [agent |-> a, result |-> QueryResult(<<>>, "none", TRUE, FALSE)]
        ELSE Let(FallbackMatches(fb, query, selected_standards, 1, <<>>),
                 LAMBDA matches :
                     [agent |-> set_status(a, "completed"),
                      result |-> QueryResult(TopK(SortByScore(matches), top_k),
                                             "enhanced_fallback", FALSE, FALSE)])

\* the candidates in the order of their distances, nearest first
RECURSIVE InsertByDistance(_, _)
InsertByDistance(sorted, x) ==
    IF sorted = <<>> THEN <<x>>
    ELSE IF Head(sorted).distance <= x.distance
         THEN <<Head(sorted)>> \o InsertByDistance(Tail(sorted), x)
         ELSE <<x>> \o sorted

RECURSIVE SortByDistanceTo(_, _)
SortByDistanceTo(items, n) ==
    IF n = 0 THEN <<>>
    ELSE Let(SortByDistanceTo(items, n - 1),
             LAMBDA sorted : InsertByDistance(sorted, items[n]))

\* collection.query (lines 414-419): the items that match the where clause
\* of line 412, ui_standard $in selected_standards, each with its distance
\* to the query, and of these the n_results nearest
CollectionQuery(col, query_embedding, n_results, selected_standards) ==
    LET distance(e1, e2) == SquaredL2[(IF e1 >= e2 THEN e1 - e2 ELSE e2 - e1) + 1]
        measure(it) == [document |-> it.document, metadata |-> it.metadata,
                        distance |-> distance(query_embedding, it.embedding)]
        measured(matching) == [i \in 1..Len(matching) |-> measure(matching[i])]
    IN  Let(SelectSeq(col.items,
                      LAMBDA it : selected_standards = <<>>
                                  \/ it.metadata.ui_standard \in Range(selected_standards)),
            LAMBDA matching :
                Let(measured(matching),
                    LAMBDA items : Take(SortByDistanceTo(items, Len(items)), n_results)))

\* the candidate cap of line 416
MaxCandidates == 20

\* the document length below which a candidate is dropped (line 436)
MinDocLen == 30

RECURSIVE Retrieved(_, _, _, _, _)
\* the loop of lines 425-451 from candidate i on
Retrieved(query, results, i, seen_articles, retrieved_standards) ==
    IF i > Len(results) THEN retrieved_standards
    ELSE LET doc == results[i].document
             metadata == results[i].metadata
             relevance_score ==
                 calculate_enhanced_relevance(query, doc, metadata,
                                              SemanticSimilarity[results[i].distance])
             article_id == metadata.article
             take == article_id \notin seen_articles /\ metadata.text_length > MinDocLen
             item == ResultItem(Len(retrieved_standards) + 1, doc, metadata, relevance_score)
             rest(seen, retrieved) == Retrieved(query, results, i + 1, seen, retrieved)
         IN  IF take
             THEN Let(seen_articles \cup {article_id},
                      LAMBDA seen : Let(Append(retrieved_standards, item),
                                        LAMBDA retrieved : rest(seen, retrieved)))
             ELSE rest(seen_articles, retrieved_standards)

\* line 416: n_results
NResults(top_k) == Min(top_k * 2, MaxCandidates)

\* whether lines 407-419 raise: the embedding model or the collection fails
\* in this call (backend_raises), or the collection refuses a request for
\* no results
QueryRaises(top_k, backend_raises) == backend_raises \/ NResults(top_k) <= 0

\* _enhanced_chromadb_query: [agent, result]
enhanced_chromadb_query(a, emb, query, top_k, selected_standards, backend_raises) ==
    LET n_results == NResults(top_k)
    IN  IF QueryRaises(top_k, backend_raises)
        THEN enhanced_fallback_query(a, query, top_k, selected_standards)
        ELSE LET done(retrieved_standards) ==
                     [agent |-> set_status(a, "completed"),
                      result |-> QueryResult(TopK(SortByScore(retrieved_standards), top_k),
                                             "enhanced_chromadb", FALSE, FALSE)]
             IN  Let(CollectionQuery(a.collection, emb[query], n_results,
                                     selected_standards),
                     LAMBDA results :
                         Let(Retrieved(query, results, 1, {}, <<>>),
                             LAMBDA retrieved_standards : done(retrieved_standards)))

\* the mutant of the on-demand load: selected standards are loaded on every
\* call
LoadOnEveryCall(a, f, emb, selected_standards) ==
    IF selected_standards # <<>>
    THEN load_selected_standards(a, f, emb, selected_standards).agent
    ELSE load_standards_if_needed(a, f, emb)

\* lines 376-381: what process loads before it queries
LoadOnDemand(a, f, emb, selected_standards) ==
    IF selected_standards # <<>>
    THEN IF ~a.standards_loaded
         THEN load_selected_standards(a, f, emb, selected_standards).agent
         ELSE a
    ELSE IF ~a.standards_loaded
         THEN load_standards_if_needed(a, f, emb)
         ELSE a

\* process: [agent, result]
process(a0, f, emb, query, top_k, selected_standards, backend_raises) ==
    LET run(a) == IF ~a.collection.is_none
                  THEN enhanced_chromadb_query(a, emb, query, top_k, selected_standards,
                                               backend_raises)
                  ELSE enhanced_fallback_query(a, query, top_k, selected_standards)
    IN  Let(LoadOnDemand(set_status(a0, "retrieving"), f, emb, selected_standards),
            LAMBDA a : run(a))

-----------------------------------------------------------------------------
(* The agent as a state machine *)

\* the selected_standards arguments callers pass; <<>> stands for None and
\* for the empty list, which every branch of the code treats alike
Selections == { <<>>, <<"GDPR">>, <<"UU_PDP">>, <<"ISO27001", "GDPR", "NIST", "UU_PDP">> }

\* the texts the embedding model is asked to encode
EmbTexts == Queries \cup ChunkTexts

\* The embedding models the agent may run with.  The two queries lie at the
\* two ends of the half circle and the chunk texts at the four other angles,
\* in each of the four rotations of their order, so that no two chunks are at
\* the same distance of a query.
EmbeddingModels ==
    LET chunk_order == << <<"Article", "6", "data">>,
                          <<"Article", "6", "Keamanan", "data", "shall">>,
                          <<"Pasal", "26", "data", "pribadi", "harus", "dilindungi">>,
                          <<"sistem", "elektronik">> >>
        model(shift) ==
            [ t \in EmbTexts |->
                IF t = <<"Keamanan", "data">> THEN 0
                ELSE IF t = <<"x">> THEN 4
                ELSE LET i == CHOOSE j \in 1..Len(chunk_order) : chunk_order[j] = t
                     IN  ((i - 1 + shift) % 4) + 1 ]
    IN  {model(shift) : shift \in 0..3}


Agent ==
    [ collection |-> collection, fallback_storage |-> fallback_storage,
      standards_loaded |-> standards_loaded, status |-> status,
      error_count |-> error_count, ingested |-> ingested ]

Install(a) ==
    /\ collection' = a.collection
    /\ fallback_storage' = a.fallback_storage
    /\ standards_loaded' = a.standards_loaded
    /\ status' = a.status
    /\ error_count' = a.error_count
    /\ ingested' = a.ingested

NoResult == QueryResult(<<>>, "none", FALSE, FALSE)

\* The record of a public call: the arguments, the int a loader returned
\* (value), the number of source files the call ingested (files), whether the
\* primary backend raised during the query (raised), the flag
\* _standards_loaded at entry, the record process returned, whether the
\* call repeats the call before it (repeats), whether process has been called
\* on the instance (queried), and the source files ingested for the first
\* time by the call, or by the load_selected_standards call of the same
\* standards right before a process call (fresh), and the list
\* processing_errors a call of load_selected_standards built (errors).
Call(op, query, top_k, selected_standards, value, files, raised, before, result) ==
    [ op |-> op, query |-> query, top_k |-> top_k,
      selected_standards |-> selected_standards, value |-> value, files |-> files,
      raised |-> raised, loaded_before |-> before, result |-> result,
      repeats |-> FALSE, queried |-> FALSE, fresh |-> {}, errors |-> <<>> ]

\* the agent as __init__ has it before _initialize_components runs
NewAgent ==
    [ collection |-> NoCollection, fallback_storage |-> NoFallback,
      standards_loaded |-> FALSE, status |-> "initialized", error_count |-> 0,
      ingested |-> {} ]

\* the mutant of _initialize_components: a failure leaves no storage at all
InitializeWithoutFallback(a, primary) ==
    IF primary THEN [a EXCEPT !.collection = [is_none |-> FALSE, items |-> <<>>]] ELSE a

\* _initialize_components: the collection is created (primary), or a step
\* before that raises and the fallback storage is created
initialize_components(a, primary) ==
    IF primary THEN [a EXCEPT !.collection = [is_none |-> FALSE, items |-> <<>>]]
    ELSE create_enhanced_fallback_storage(a)

\* __init__ with _initialize_components, on some file system and with some
\* embedding model
Init ==
    /\ fs \in FsConfigs
    /\ \E primary \in BOOLEAN :
          /\ \E a \in {initialize_components(NewAgent, primary)} :
                 /\ collection = a.collection
                 /\ fallback_storage = a.fallback_storage
                 /\ standards_loaded = a.standards_loaded
                 /\ status = a.status
                 /\ error_count = a.error_count
                 /\ ingested = a.ingested
          /\ embed \in IF primary THEN EmbeddingModels ELSE {[t \in EmbTexts |-> 0]}
    /\ loads = 0
    /\ ret = Call("init", <<>>, 0, <<>>, 0, 0, FALSE, FALSE, NoResult)

\* whether a call of load_selected_standards reaches its loading loop
RunsSelectedPass(selected_standards) == selected_standards # <<>> /\ fs.dir_exists

\* whether a call of _load_standards_if_needed reaches the directory loop
RunsDirectoryPass == ~standards_loaded /\ fs.dir_exists

\* whether process runs an ingestion pass before it queries
ProcessLoads(selected_standards) ==
    /\ ~standards_loaded
    /\ IF selected_standards # <<>> THEN RunsSelectedPass(selected_standards)
       ELSE RunsDirectoryPass

Count(b) == IF b THEN 1 ELSE 0

\* whether a call of process comes right after a call of process with the
\* same arguments and the same behaviour of the backend, and ingests nothing
Repeats(query, top_k, selected_standards, raised) ==
    /\ ret.op = "process"
    /\ ret.query = query
    /\ ret.top_k = top_k
    /\ ret.selected_standards = selected_standards
    /\ ret.raised = raised
    /\ ~ProcessLoads(selected_standards)

\* a caller runs process(query, top_k, selected_standards)
Process(query, top_k, selected_standards, backend_raises) ==
    /\ backend_raises => ~collection.is_none
    /\ ProcessLoads(selected_standards) => loads < MaxLoads
    /\ \E r \in {process(Agent, fs, embed, query, top_k, selected_standards,
                           backend_raises)} :
           /\ Install(r.agent)
           /\ \E raised \in {~collection.is_none /\ QueryRaises(top_k, backend_raises)} :
                  ret' = [Call("process", query, top_k, selected_standards, 0, 0,
                               raised, standards_loaded, r.result)
                            EXCEPT !.repeats = Repeats(query, top_k, selected_standards,
                                                       raised),
                                   !.queried = TRUE,
                                   !.fresh = IF /\ ret.op = "load_selected_standards"
                                                /\ ret.queried
                                                /\ ret.selected_standards = selected_standards
                                             THEN ret.fresh ELSE {}]
    /\ loads' = loads + Count(ProcessLoads(selected_standards))
    /\ UNCHANGED <<fs, embed>>

\* a caller runs load_selected_standards(selected_standards)
LoadSelectedStandards(selected_standards) ==
    /\ RunsSelectedPass(selected_standards) => loads < MaxLoads
    /\ \E r \in {load_selected_standards(Agent, fs, embed, selected_standards)} :
           /\ Install(r.agent)
           /\ ret' = [Call("load_selected_standards", <<>>, 0, selected_standards,
                           r.value, r.files, FALSE, standards_loaded, NoResult)
                        EXCEPT !.queried = ret.queried,
                               !.fresh = r.agent.ingested \ ingested,
                               !.errors = r.errors]
    /\ loads' = loads + Count(RunsSelectedPass(selected_standards))
    /\ UNCHANGED <<fs, embed>>

\* a caller runs load_standards_from_directory("standards")
LoadStandardsFromDirectory ==
    /\ ~standards_loaded => loads < MaxLoads
    /\ \E r \in {load_standards_from_directory(Agent, fs, embed)} :
           /\ Install(r.agent)
           /\ ret' = [Call("load_standards_from_directory", <<>>, 0, <<>>, r.value,
                           r.files, FALSE, standards_loaded, NoResult)
                        EXCEPT !.queried = ret.queried]
    /\ loads' = loads + Count(~standards_loaded)
    /\ UNCHANGED <<fs, embed>>

\* a caller runs get_available_standards()
GetAvailableStandards ==
    /\ RunsDirectoryPass => loads < MaxLoads
    /\ \E a \in {load_standards_if_needed(Agent, fs, embed)} : Install(a)
    /\ ret' = [Call("get_available_standards", <<>>, 0, <<>>, 0, 0, FALSE,
                    standards_loaded, NoResult) EXCEPT !.queried = ret.queried]
    /\ loads' = loads + Count(RunsDirectoryPass)
    /\ UNCHANGED <<fs, embed>>

\* the record of a call of a BaseAgent method that returns nothing
BaseCall(op) ==
    [Call(op, <<>>, 0, <<>>, 0, 0, FALSE, standards_loaded, NoResult)
       EXCEPT !.queried = ret.queried]

\* a caller runs set_status(new_status), with one of two statuses
SetStatus(new_status) ==
    /\ new_status = "error" => error_count < MaxErrors
    /\ Install(set_status(Agent, new_status))
    /\ ret' = BaseCall("set_status")
    /\ UNCHANGED <<fs, embed, loads>>

\* a caller runs reset_error_count()
ResetErrorCount ==
    /\ Install([Agent EXCEPT !.error_count = 0])
    /\ ret' = BaseCall("reset_error_count")
    /\ UNCHANGED <<fs, embed, loads>>

\* a caller runs cleanup(): two status changes
Cleanup ==
    /\ Install(set_status(set_status(Agent, "cleaning_up"), "cleaned_up"))
    /\ ret' = BaseCall("cleanup")
    /\ UNCHANGED <<fs, embed, loads>>

Next ==
    \/ \E q \in Queries, k \in 0..MaxTopK, s \in Selections, b \in BOOLEAN : Process(q, k, s, b)
    \/ \E s \in Selections : LoadSelectedStandards(s)
    \/ LoadStandardsFromDirectory
    \/ GetAvailableStandards
    \/ \E st \in {"error", "initialized"} : SetStatus(st)
    \/ ResetErrorCount
    \/ Cleanup

Spec == Init /\ [][Next]_vars

-----------------------------------------------------------------------------
(* The private methods on their own: an input is drawn, a method is applied *)

\* a chunk with more terms of the vocabulary than the tag limit, in an order
\* that is not the order of the vocabulary
LongChunk ==
    <<"rights", "privasi", "privacy", "keamanan", "security", "pengolahan",
      "processing", "persetujuan", "consent", "personal", "pribadi", "data">>

\* the sample chunks are made of section references and phrases of the
\* section patterns
SampleChunks ==
    LET phrases == { <<"Article", "6">>, <<"Pasal", "26">>, <<"means">>, <<"shall", "not">>,
                     <<"dilarang">>, <<"proses">>, <<"denda">>, <<"hak">>, <<"data">> }
    IN  {Concat(ps) : ps \in UNION {[1..n -> phrases] : n \in 0..MaxPhrases}}
            \cup {LongChunk}

\* a text is its paragraphs, which a blank line separates; a paragraph is
\* the lengths of its words, which single spaces separate.  The paragraphs
\* of the samples have words of one length: 17, 49, 99, 499 and 1299
\* characters
SampleTexts ==
    LET paragraph(words, word_len) == [k \in 1..words |-> word_len]
        paragraphs == { paragraph(3, 5), paragraph(5, 9), paragraph(10, 9),
                        paragraph(50, 9), paragraph(130, 9) }
    IN  UNION {[1..n -> paragraphs] : n \in 0..MaxParagraphs}

\* a chunk of the ranking scenario; its embedding is at one of the angles,
\* the query being at angle 0, and the fallback storage keeps no embedding
ScenarioChunks(texts, primary) ==
    {[words |-> t, len |-> n, angle |-> e] :
        t \in texts, n \in ScenarioLengths, e \in IF primary THEN 0..4 ELSE {0}}

\* the ranking scenarios: the backend and the two chunks of the index
Scenarios ==
    UNION {{[op |-> "index", primary |-> primary, with |-> a, without |-> b] :
               a \in ScenarioChunks(WithKeamanan, primary),
               b \in ScenarioChunks(WithoutOverlap, primary)} : primary \in BOOLEAN}

\* the chunks of the score comparison, before the term is added; one has
\* ten terms of the vocabulary, none of them the first term
ComparedChunks ==
    { <<"sistem", "elektronik">>, <<"hak">>, <<"Pasal", "26", "data", "pribadi">>,
      <<"rights", "privasi", "privacy", "keamanan", "security", "pengolahan",
        "processing", "persetujuan", "consent", "personal">>,
      LongChunk }

\* the score comparisons: a query, a term of the vocabulary that is a word of
\* the query, and a chunk that does not have the term as a word
Comparisons ==
    {[op |-> "pair", query |-> q, term |-> t, chunk |-> c] :
        <<q, t, c>> \in {x \in ComparedQueries \X Range(important_keywords) \X ComparedChunks :
                            x[2] \in Range(x[1]) /\ x[2] \notin Range(x[3])}}

\* the inputs of the methods; a sample chunk is on page 1 or 2
UnitInputs ==
    {[op |-> "chunk", chunk |-> c, page |-> p] : c \in SampleChunks, p \in 1..2}
        \cup {[op |-> "text", text |-> t] : t \in SampleTexts}
        \cup Scenarios
        \cup Comparisons

\* the default of the parameter chunk_size, line 734
chunk_size == 600

\* the shortest paragraph line 737 keeps is longer than this
MinParagraphLen == 20

\* the shortest window line 760 keeps is longer than this
MinWindowLen == 50

\* python: sum(s), adding the two halves of s
RECURSIVE SumSeq(_)
SumSeq(s) ==
    IF Len(s) <= 1 THEN (IF s = <<>> THEN 0 ELSE s[1])
    ELSE SumSeq(SubSeq(s, 1, Len(s) \div 2)) + SumSeq(SubSeq(s, Len(s) \div 2 + 1, Len(s)))

\* len(p.strip()) of a paragraph
ParagraphLen(p) == IF p = <<>> THEN 0 ELSE SumSeq(p) + Len(p) - 1

\* len(current_chunk), current being the paragraphs that a blank line joins
\* in current_chunk
RECURSIVE BufferLen(_)
BufferLen(current) ==
    IF current = <<>> THEN 0
    ELSE ParagraphLen(Head(current))
           + (IF Tail(current) = <<>> THEN 0 ELSE 2 + BufferLen(Tail(current)))

\* the mutant of the loop: the last buffer is not appended
RECURSIVE AccumulateWithoutLast(_, _, _)
AccumulateWithoutLast(paragraphs, chunks, current) ==
    IF paragraphs = <<>> THEN chunks
    ELSE IF BufferLen(current) + ParagraphLen(Head(paragraphs)) > chunk_size
            /\ current # <<>>
         THEN AccumulateWithoutLast(Tail(paragraphs), Append(chunks, current),
                                    <<Head(paragraphs)>>)
         ELSE AccumulateWithoutLast(Tail(paragraphs), chunks,
                                    Append(current, Head(paragraphs)))

\* lines 739-752: the chunks the loop appends, each as the paragraphs joined
\* in it, current being the paragraphs of current_chunk
RECURSIVE Accumulate(_, _, _)
Accumulate(paragraphs, chunks, current) ==
    IF paragraphs = <<>>
    THEN IF current # <<>> THEN Append(chunks, current) ELSE chunks
    ELSE IF BufferLen(current) + ParagraphLen(Head(paragraphs)) > chunk_size
            /\ current # <<>>
         THEN Accumulate(Tail(paragraphs), Append(chunks, current), <<Head(paragraphs)>>)
         ELSE Accumulate(Tail(paragraphs), chunks, Append(current, Head(paragraphs)))

\* lines 756-761: the lengths of the windows of chunk_size // 8 words that
\* are kept, words being the lengths of the words text.split() gives
WordWindows(words) ==
    SelectSeq([k \in 1..((Len(words) + (chunk_size \div 8) - 1) \div (chunk_size \div 8)) |->
                  Let(SubSeq(words, (k - 1) * (chunk_size \div 8) + 1,
                             Min(k * (chunk_size \div 8), Len(words))),
                      LAMBDA window : SumSeq(window) + Len(window) - 1)],
              LAMBDA chunk : chunk > MinWindowLen)

\* _create_smart_chunks: the lengths of the chunks returned, the paragraphs
\* of each (none for a window of words), and whether the word windows
\* replaced the chunks of the paragraphs
create_smart_chunks(text) ==
    Let(Accumulate(SelectSeq(text, LAMBDA p : ParagraphLen(p) > MinParagraphLen),
                   <<>>, <<>>),
        LAMBDA chunks :
            IF chunks = <<>> \/ (Len(chunks) = 1 /\ BufferLen(chunks[1]) > chunk_size * 2)
            THEN [fallback |-> TRUE, paragraphs |-> <<>>,
                  chunks |-> WordWindows(Concat(text))]
            ELSE [fallback |-> FALSE, paragraphs |-> chunks,
                  chunks |-> [i \in 1..Len(chunks) |-> BufferLen(chunks[i])]])

\* the variables of the agent, which the private methods below leave alone
AgentVars ==
    <<fs, embed, collection, fallback_storage, standards_loaded, status, error_count,
      ingested, loads>>

UnitInit ==
    /\ fs = [dir_exists |-> FALSE, ok |-> {}, corrupt |-> {}, listdir |-> <<>>]
    /\ embed = [t \in EmbTexts |-> 0]
    /\ \E a \in {initialize_components(NewAgent, FALSE)} :
           /\ collection = a.collection
           /\ fallback_storage = a.fallback_storage
           /\ standards_loaded = a.standards_loaded
           /\ status = a.status
           /\ error_count = a.error_count
           /\ ingested = a.ingested
    /\ loads = 0
    /\ ret \in UnitInputs

\* lines 259-271 on a chunk of a page: the two searches and the reference
ExtractSectionReference ==
    /\ ret.op = "chunk"
    /\ \E chunk \in {TextChars(ret.chunk)} :
           ret' = [op |-> "section_reference", chunk |-> ret.chunk, page |-> ret.page,
                   match |-> SectionSearch({"Article", "Section"}, chunk),
                   match_id |-> SectionSearch({"Pasal"}, chunk),
                   value |-> ExtractArticle(SectionReference(chunk), ret.page)]
    /\ UNCHANGED AgentVars

\* _identify_section_type on a chunk
IdentifySectionType ==
    /\ ret.op = "chunk"
    /\ ret' = [op |-> "section_type", chunk |-> ret.chunk, page |-> ret.page,
               value |-> identify_section_type(TextChars(ret.chunk))]
    /\ UNCHANGED AgentVars

\* _extract_keywords_from_chunk on a chunk
ExtractKeywords ==
    /\ ret.op = "chunk"
    /\ ret' = [op |-> "keywords", chunk |-> ret.chunk, page |-> ret.page,
               value |-> extract_keywords_from_chunk(TextChars(ret.chunk))]
    /\ UNCHANGED AgentVars

\* _create_smart_chunks on a text
CreateSmartChunks ==
    /\ ret.op = "text"
    /\ \E r \in {create_smart_chunks(ret.text)} :
           ret' = [op |-> "smart_chunks", text |-> ret.text, fallback |-> r.fallback,
                   chunks |-> r.chunks, paragraphs |-> r.paragraphs]
    /\ UNCHANGED AgentVars

\* _clean_extracted_text on a text of words of letters: line 715 turns every
\* run of whitespace, the blank lines between paragraphs included, into one
\* space, so the words end up in one paragraph; the other substitutions
\* find nothing to replace
clean_extracted_text(text) == IF Concat(text) = <<>> THEN <<>> ELSE <<Concat(text)>>

\* lines 251-256 of _load_pdf_standard_enhanced on the text of a page: the
\* text is cleaned, a page of more than 100 characters is chunked, and
\* indexed are the chunks line 256 lets through
ChunkPage ==
    /\ ret.op = "text"
    /\ \E cleaned_text \in {clean_extracted_text(ret.text)} :
       \E r \in {IF BufferLen(cleaned_text) > MinPageLen
                  THEN create_smart_chunks(cleaned_text)
                  ELSE [fallback |-> FALSE, paragraphs |-> <<>>, chunks |-> <<>>]} :
           ret' = [op |-> "page_chunks", text |-> ret.text,
                   clean_len |-> BufferLen(cleaned_text), fallback |-> r.fallback,
                   chunks |-> r.chunks,
                   indexed |-> SelectSeq(r.chunks, LAMBDA chunk : chunk > MinChunkLen)]
    /\ UNCHANGED AgentVars

\* The two chunks are stored (lines 252-312) with the embeddings of the
\* scenario and the query of the scenario is run on the backend of the
\* scenario.  A chunk of the scenario is the cleaned text of its page and so
\* chunk 1, the only chunk, of it; ScenarioEntry is the entry lines 258-286
\* build for it.
RankScenario ==
    /\ ret.op = "index"
    /\ LET ScenarioEntry(chunk, page_num) ==
               [ id |-> ChunkId("GDPR.pdf", page_num, 1),
                 document |-> chunk.words,
                 metadata |-> MetadataOf("GDPR.pdf", "Global", page_num, 1, "GDPR",
                                         chunk.len, Annotate(TextChars(chunk.words))) ]
       IN
       \E emb \in {[t \in {ScenarioQuery, ret.with.words, ret.without.words} |->
                       IF t = ret.with.words THEN ret.with.angle
                       ELSE IF t = ret.without.words THEN ret.without.angle ELSE 0]} :
       \E a \in {StoreChunks(initialize_components(NewAgent, ret.primary),
                             <<ScenarioEntry(ret.with, 1), ScenarioEntry(ret.without, 2)>>,
                             "GDPR", emb)} :
       \E r \in {IF ret.primary
                  THEN enhanced_chromadb_query(a, emb, ScenarioQuery, MaxTopK, <<>>, FALSE)
                  ELSE enhanced_fallback_query(a, ScenarioQuery, MaxTopK, <<>>)} :
           /\ Install(r.agent)
           /\ ret' = [op |-> "ranking", primary |-> ret.primary, with |-> ret.with,
                      without |-> ret.without, result |-> r.result]
    /\ UNCHANGED <<fs, embed, loads>>

\* factors 1 and 2 of _calculate_enhanced_relevance (lines 544-553) for a
\* chunk with the tags lines 320-334 give it
KeywordFactors(query, chunk) ==
    [ keyword |-> KeywordScore(KeywordOverlap(LowerWords(query), LowerWords(chunk)),
                               Cardinality(LowerWords(query))),
      metadata |-> MetadataScore(
                       MetadataMatches(LowerWords(query),
                                       SplitKeywords(extract_keywords_from_chunk(
                                                         TextChars(chunk)))),
                       Cardinality(LowerWords(query))) ]

\* the two factors for a chunk and for the chunk with the term added
CompareScores ==
    /\ ret.op = "pair"
    /\ ret' = [op |-> "scores", query |-> ret.query, term |-> ret.term, chunk |-> ret.chunk,
               without |-> KeywordFactors(ret.query, ret.chunk),
               with |-> KeywordFactors(ret.query, Append(ret.chunk, ret.term))]
    /\ UNCHANGED AgentVars

UnitNext ==
    \/ ExtractSectionReference
    \/ IdentifySectionType
    \/ ExtractKeywords
    \/ CreateSmartChunks
    \/ ChunkPage
    \/ RankScenario
    \/ CompareScores

UnitSpec == UnitInit /\ [][UnitNext]_vars

-----------------------------------------------------------------------------
(* Properties *)

Standards == ret.result.standards

\* the metadatas and ids of the store the agent uses
StoreMetadatas ==
    IF ~collection.is_none
    THEN [i \in 1..Len(collection.items) |-> collection.items[i].metadata]
    ELSE fallback_storage.metadatas

StoreIds ==
    IF ~collection.is_none
    THEN [i \in 1..Len(collection.items) |-> collection.items[i].id]
    ELSE fallback_storage.ids

\* the index positions a query with these selected standards looks at
Selected(selected_standards) ==
    {i \in 1..Len(StoreMetadatas) :
        selected_standards = <<>>
        \/ StoreMetadatas[i].ui_standard \in Range(selected_standards)}

\* C1: in every response of process, on either backend, no two items of the
\* 'standards' list have the same section reference ('article').
SectionDedup ==
    ret.op = "process" =>
        \A i, j \in 1..Len(Standards) :
            i # j => Standards[i].article # Standards[j].article

\* C2: every relevance score process returns lies between 0 and 1.
ScoreBounds ==
    ret.op = "process" =>
        \A i \in 1..Len(Standards) :
            /\ ~FLess(Standards[i].relevance_score, FZero)
            /\ ~FLess(FOne, Standards[i].relevance_score)

\* C3: process(q, top_k = k, ...) returns at most k items, for every k >= 0,
\* on both backends and when the primary backend raises.
TopKBound == ret.op = "process" => Len(Standards) <= ret.top_k

\* C3, witness: a call with top_k >= 1 returned exactly top_k items although
\* more chunks than that were eligible.
TopKBoundWitness ==
    /\ ret.op = "process"
    /\ ret.top_k >= 1
    /\ Len(Standards) = ret.top_k
    /\ Cardinality(Selected(ret.selected_standards)) > ret.top_k

\* C4: with a non-empty selected_standards list, every returned item belongs
\* to one of the selected standards.
SelectedStandardsOnly ==
    (ret.op = "process" /\ ret.selected_standards # <<>>) =>
        \A i \in 1..Len(Standards) :
            Standards[i].ui_standard \in Range(ret.selected_standards)

\* C4, witness: a query for GDPR alone returned items while the index also
\* held chunks of UU_PDP.
SelectedStandardsOnlyWitness ==
    /\ ret.op = "process"
    /\ ret.selected_standards = <<"GDPR">>
    /\ Standards # <<>>
    /\ \E i \in 1..Len(StoreMetadatas) : StoreMetadatas[i].ui_standard = "UU_PDP"

\* C5: when a step of process raises, the call returns success = true, an
\* empty 'standards' list and an 'error' field.
RaiseGivesErrorField ==
    (ret.op = "process" /\ ret.raised) =>
        /\ ret.result.success
        /\ Standards = <<>>
        /\ ret.result.has_error

\* C6: after process with selected standards, every selected catalog standard
\* whose source files exist (readable, at the canonical path) is ingested.
OnDemandIngestion ==
    ret.op = "process" =>
        \A s \in Range(ret.selected_standards) :
            (/\ InMapping(s)
             /\ \A file \in Range(standards_mapping(s).files) :
                    CanonicalPath(standards_mapping(s).category, file) \in fs.ok)
            => Range(standards_mapping(s).files) \subseteq ingested

\* C7: load_selected_standards returns the number of source files it
\* ingested during the call.
LoadedCountIsFilesIngested ==
    ret.op = "load_selected_standards" => ret.value = ret.files

\* C8: the index never holds two entries with the same chunk_id.
UniqueChunkIds ==
    \A i, j \in 1..Len(StoreIds) : i # j => StoreIds[i] # StoreIds[j]

\* C9: the item at position i of the returned list carries rank i.
RanksFollowOrder ==
    ret.op = "process" => \A i \in 1..Len(Standards) : Standards[i].rank = i

\* the candidates the primary query of the last call fetched, scored
FetchedCandidates ==
    {[article |-> c.metadata.article,
      relevance_score |->
          calculate_enhanced_relevance(ret.query, c.document, c.metadata,
                                       SemanticSimilarity[c.distance])]
     : c \in Range(CollectionQuery(collection, embed[ret.query], NResults(ret.top_k),
                                   ret.selected_standards))}

\* C10: on the primary query path the chunk returned for a section reference
\* is the best-scored of the fetched candidates citing that section.
DedupKeepsBestScored ==
    (ret.op = "process" /\ ret.result.method = "enhanced_chromadb") =>
        \A i \in 1..Len(Standards) :
            \A c \in FetchedCandidates :
                c.article = Standards[i].article
                    => ~FLess(Standards[i].relevance_score, c.relevance_score)

\* C11: a call of process that repeats the call before it, on the index that
\* call left, returns the same 'standards' list: same items, order, scores
\* and ranks.
IdempotentRequery ==
    [][ret'.repeats => ret'.result.standards = ret.result.standards]_vars

\* C11, witness: a repeated call returned items.
IdempotentRequeryWitness ==
    /\ ret.op = "process"
    /\ ret.repeats
    /\ Standards # <<>>

\* C12: construction ends with the collection, or with collection = None and
\* an empty fallback storage; and at all times the collection is set if and
\* only if no fallback storage exists.
OneBackendActive ==
    /\ ~collection.is_none <=> ~fallback_storage.exists
    /\ (ret.op = "init" /\ collection.is_none)
           => fallback_storage = [NoFallback EXCEPT !.exists = TRUE]

\* C12, witness: construction fell back and the agent has ingested chunks
\* into the fallback storage since.
OneBackendActiveWitness ==
    /\ collection.is_none
    /\ fallback_storage.exists
    /\ fallback_storage.documents # <<>>

\* C13: when the primary backend raises during a query and no fallback
\* storage is available, the response is success = true, standards = [] and
\* has an 'error' field; with a fallback storage the fallback query answers.
FailoverWithoutStoreGivesError ==
    (ret.op = "process" /\ ret.raised) =>
        IF fallback_storage.exists
        THEN ret.result.method \in {"enhanced_fallback", "none"}
        ELSE /\ ret.result.success
             /\ Standards = <<>>
             /\ ret.result.has_error

\* whether the file of a catalog standard can be read where the loader looks
\* for it: at the canonical path, or, when nothing is there, at an
\* alternative path
Readable(standard, file) ==
    LET filepath == CanonicalPath(standards_mapping(standard).category, file)
    IN  \/ filepath \in fs.ok
        \/ /\ filepath \notin fs.ok \cup fs.corrupt
           /\ \E i \in 1..Len(AltPaths(file)) : AltPaths(file)[i] \in fs.ok

\* the files of the selected catalog standards that can be read
ReadableFiles(selected_standards) ==
    UNION {{file \in Range(standards_mapping(s).files) : Readable(s, file)}
             : s \in {x \in Range(selected_standards) : InMapping(x)}}

\* whether processing_errors of the last call has an entry for the file
SoftError(standard, file) ==
    \E i \in 1..Len(ret.errors) :
        \/ ret.errors[i] = <<"Failed to process", file>>
        \/ ret.errors[i] = <<"File not found:">>
                             \o CanonicalPath(standards_mapping(standard).category, file)

\* C14: a call of load_selected_standards, for any list of ids, records every
\* unknown id and every file that is missing or does not open as a soft
\* error, and ingests every readable file of every other requested standard,
\* before or after the bad entry.
SoftErrorsDoNotAbort ==
    ret.op = "load_selected_standards"
        => /\ \A i \in 1..Len(ret.selected_standards) :
                  LET s == ret.selected_standards[i]
                  IN  IF ~InMapping(s)
                      THEN \E j \in 1..Len(ret.errors) :
                               ret.errors[j] = <<"Unknown standard:", s>>
                      ELSE \A file \in Range(standards_mapping(s).files) :
                               Readable(s, file) \/ SoftError(s, file)
           /\ ReadableFiles(ret.selected_standards) \subseteq ingested
           /\ ret.files = Cardinality(ReadableFiles(ret.selected_standards))

\* C15: a query of an agent whose index holds no chunk returns success =
\* true and standards = [], on both backends.
EmptyIndexGivesEmptyResult ==
    (ret.op = "process" /\ StoreIds = <<>>) =>
        /\ ret.result.success
        /\ Standards = <<>>

\* C15, witness: the primary backend answered a query for at least one item
\* after an ingestion pass that stored nothing.
EmptyIndexGivesEmptyResultWitness ==
    /\ ret.op = "process"
    /\ StoreIds = <<>>
    /\ ~collection.is_none
    /\ ~ret.raised
    /\ ret.top_k >= 1
    /\ loads >= 1

\* C16: the section reference of a chunk is the Article/Section match when
\* there is one, else the Pasal match when there is one, else "Page N" with
\* N the page counted from 1.
FirstSectionMatchWins ==
    ret.op = "section_reference" =>
        ret.value = IF ret.match.found THEN MatchReference(ret.match)
                    ELSE IF ret.match_id.found THEN MatchReference(ret.match_id)
                    ELSE <<"Page", PageDigits(ret.page)>>

\* the labels of the pattern groups, in the order the claim gives
SectionLabels == <<"definition", "obligation", "prohibition", "procedure", "penalty", "right">>

\* some phrase of the group of this label is in the lowercased text of the words
HasPhraseOf(label, words) ==
    \E g \in 1..Len(section_patterns) :
        /\ section_patterns[g][1] = label
        /\ \E pattern \in Range(section_patterns[g][2]) :
               IsSubstring(TextChars(pattern), LowerChars(TextChars(words)))

\* every group label is the classification of some sample chunk
EveryGroupReturned ==
    \A label \in Range(SectionLabels) :
        \E c \in SampleChunks : identify_section_type(TextChars(c)) = label

\* C17: the section type of a chunk is the first label, in the order
\* definition, obligation, prohibition, procedure, penalty, right, one of
\* whose phrases is in the lowercased chunk, and "general" when there is
\* none; it is one of the seven labels, and each of the six group labels is
\* the section type of some chunk.
FirstMatchingGroup ==
    /\ ret.op = "section_type" =>
           /\ ret.value \in Range(SectionLabels) \cup {"general"}
           /\ ret.value = "general" <=>
                  \A i \in 1..Len(SectionLabels) : ~HasPhraseOf(SectionLabels[i], ret.chunk)
           /\ \A i \in 1..Len(SectionLabels) :
                  ret.value = SectionLabels[i] =>
                      /\ HasPhraseOf(SectionLabels[i], ret.chunk)
                      /\ \A j \in 1..(i - 1) : ~HasPhraseOf(SectionLabels[j], ret.chunk)
    /\ (ret.op = "section_type" /\ ret.chunk = <<>>) => EveryGroupReturned

\* a chunk with phrases of two groups gets the label of the earlier group
FirstMatchingGroupWitness ==
    /\ ret.op = "section_type"
    /\ ret.chunk = <<"shall", "not", "dilarang">>
    /\ ret.value = "obligation"

\* the position of a term in the vocabulary
KeywordIndex(kw) == CHOOSE i \in 1..Len(important_keywords) : important_keywords[i] = kw

\* the terms of the vocabulary that are in the lowercased text of the words
PresentKeywords(words) ==
    {kw \in Range(important_keywords) :
        IsSubstring(Spell(kw), LowerChars(TextChars(words)))}

\* C18: the tag list of a chunk has at most 10 entries, each a term of the
\* vocabulary that is in the lowercased chunk, in vocabulary order without
\* repetition, and it is the first 10 (or fewer) terms present in the text.
KeywordTags ==
    ret.op = "keywords" =>
        /\ Len(ret.value) <= 10
        /\ Range(ret.value) \subseteq PresentKeywords(ret.chunk)
        /\ \A i \in 1..(Len(ret.value) - 1) :
               KeywordIndex(ret.value[i]) < KeywordIndex(ret.value[i + 1])
        /\ \A kw \in PresentKeywords(ret.chunk) \ Range(ret.value) :
               /\ Len(ret.value) = 10
               /\ \A i \in 1..Len(ret.value) : KeywordIndex(ret.value[i]) < KeywordIndex(kw)

\* a chunk with twelve terms of the vocabulary gets the first ten as tags
KeywordTagsWitness ==
    /\ ret.op = "keywords"
    /\ ret.chunk = LongChunk
    /\ ret.value = Take(important_keywords, 10)

\* C19: every chunk of a page that reaches the index has length at least
\* 50, and when the word windows are not used every chunk
\* _create_smart_chunks returns has length at most 2 x chunk_size, for every
\* text, one of several paragraphs of which one is longer than 2 x chunk_size
\* included.
ChunkLengthBounds ==
    /\ ret.op = "page_chunks" => \A i \in 1..Len(ret.indexed) : ret.indexed[i] >= 50
    /\ (ret.op \in {"smart_chunks", "page_chunks"} /\ ~ret.fallback)
           => \A i \in 1..Len(ret.chunks) : ret.chunks[i] <= 2 * chunk_size

\* the positions of the returned list that hold the chunk of these words
PositionsOf(words) ==
    {i \in 1..Len(ret.result.standards) : ret.result.standards[i].content = words}

\* C20: for the query "keamanan data" and an index of one chunk with
\* "keamanan" and one chunk without a word of the query, the chunk with
\* "keamanan" is returned, at a position before the other chunk's when
\* that one is returned too, whatever the section types, text lengths and
\* distances of the chunks and the punctuation after the word, on either
\* backend.
KeamananRanksFirst ==
    ret.op = "ranking" =>
        /\ PositionsOf(ret.with.words) # {}
        /\ \A i \in PositionsOf(ret.with.words), j \in PositionsOf(ret.without.words) : i < j

\* C21: for a query with a term of the vocabulary and two chunks that differ
\* only in that one also has the term as a word, the keyword-overlap factor
\* and the metadata factor of the chunk with the term are each at least those
\* of the chunk without it.
ScoreMonotonicity ==
    ret.op = "scores" =>
        /\ ~FLess(ret.with.keyword, ret.without.keyword)
        /\ ~FLess(ret.with.metadata, ret.without.metadata)

\* the returned items that are chunks of the files in fresh
FreshItems ==
    {i \in 1..Len(ret.result.standards) : ret.result.standards[i].source \in ret.fresh}

\* C22: when process has been called, load_selected_standards then ingests
\* files for the first time and process is called for the same standards
\* (with top_k >= 1 and a backend that answers), the new chunks take part in
\* the query: a chunk of the new files is returned, unless top_k other
\* chunks are.
RequeryReflectsIngestion ==
    (ret.op = "process" /\ ret.fresh # {} /\ ret.top_k >= 1 /\ ~ret.raised) =>
        \/ FreshItems # {}
        \/ Len(ret.result.standards) = ret.top_k

\* on the primary backend, process for UU_PDP, then GDPR.pdf ingested, then
\* process for GDPR returns a chunk of GDPR.pdf
RequeryReflectsIngestionWitness ==
    /\ ret.op = "process"
    /\ ret.fresh = {"GDPR.pdf"}
    /\ ret.selected_standards = <<"GDPR">>
    /\ ~collection.is_none
    /\ ~ret.raised
    /\ FreshItems # {}

\* the readable .pdf files in the category directories of the standards root
ReadableUnderRoot ==
    {file \in ModelFiles :
        \E category \in {"Global", "Nasional"} : CanonicalPath(category, file) \in fs.ok}

\* C23: a call of process without selected standards on an instance on which
\* nothing has been ingested ingests every readable PDF of the category
\* directories of the standards root before it queries, and when the
\* standards directory does not exist it returns success = true with an
\* empty list and no error.
DirectoryIngestionWhenNothingIngested ==
    [][(ret'.op = "process" /\ ret'.selected_standards = <<>> /\ ingested = {})
           => IF fs.dir_exists
              THEN ReadableUnderRoot \subseteq ingested'
              ELSE /\ ret'.result.success
                   /\ ret'.result.standards = <<>>
                   /\ ~ret'.result.has_error]_vars

\* the three paths of a file of a catalog standard, in the order of the claim
PathsOf(standard, file) ==
    <<CanonicalPath(standards_mapping(standard).category, file)>> \o AltPaths(file)

\* the files of the selected catalog standards
RequestedFiles(selected_standards) ==
    UNION {Range(standards_mapping(s).files)
             : s \in {x \in Range(selected_standards) : InMapping(x)}}

\* C24: load_selected_standards ingests each file of a requested standard
\* from the first of standards/<category>/<file>, standards/<file>, <file>
\* that exists and loads, so a file with a loadable path is ingested, and
\* each file adds at most 1 to the count.
FirstLoadablePathIngests ==
    (ret.op = "load_selected_standards" /\ ret.selected_standards # <<>> /\ fs.dir_exists)
        => /\ \A s \in {x \in Range(ret.selected_standards) : InMapping(x)} :
                  \A file \in Range(standards_mapping(s).files) :
                      (\E i \in 1..Len(PathsOf(s, file)) : PathsOf(s, file)[i] \in fs.ok)
                          => file \in ingested
           /\ ret.files <= Cardinality(RequestedFiles(ret.selected_standards))

\* the list keyword_index has for a tag, empty when the tag is no key
KeywordPositions(k) ==
    IF k \in DOMAIN fallback_storage.keyword_index
    THEN fallback_storage.keyword_index[k] ELSE <<>>

\* C25: on the fallback backend, after every ingestion operation
\* keyword_index[k] lists exactly the positions (from 0) of the chunks that
\* have k among their tags, each position once.
KeywordIndexExact ==
    collection.is_none =>
        \A k \in Range(important_keywords) \cup DOMAIN fallback_storage.keyword_index :
            /\ Range(KeywordPositions(k)) =
                   {i \in 0..(Len(fallback_storage.metadatas) - 1) :
                       k \in Range(fallback_storage.metadatas[i + 1].keywords)}
            /\ \A m, n \in 1..Len(KeywordPositions(k)) :
                   m # n => KeywordPositions(k)[m] # KeywordPositions(k)[n]

\* the paragraphs of the text that line 737 keeps
KeptParagraphs == SelectSeq(ret.text, LAMBDA p : ParagraphLen(p) > 20)

\* C26: when the word windows are not used, the chunks of
\* _create_smart_chunks hold the paragraphs longer than 20 characters, each
\* once and in their order, and a chunk ends before a paragraph exactly when
\* the buffer is not empty and its length plus the paragraph's exceeds
\* chunk_size.
ParagraphsKeptInOrder ==
    (ret.op = "smart_chunks" /\ ~ret.fallback) =>
        /\ Concat(ret.paragraphs) = KeptParagraphs
        /\ \A c \in 1..Len(ret.paragraphs) :
               /\ ret.paragraphs[c] # <<>>
               /\ \A j \in 1..(Len(ret.paragraphs[c]) - 1) :
                      BufferLen(SubSeq(ret.paragraphs[c], 1, j))
                          + ParagraphLen(ret.paragraphs[c][j + 1]) <= chunk_size
               /\ c < Len(ret.paragraphs) =>
                      BufferLen(ret.paragraphs[c])
                          + ParagraphLen(ret.paragraphs[c + 1][1]) > chunk_size

\* a text of three paragraphs of which the first two are joined in a chunk
\* and the third starts the next
ParagraphsKeptInOrderWitness ==
    /\ ret.op = "smart_chunks"
    /\ ~ret.fallback
    /\ Len(ret.text) = 3
    /\ Len(ret.paragraphs) = 2
    /\ Len(ret.paragraphs[1]) = 2

\* the score the fallback query gives the chunk at position p for the query
\* of the last call
FallbackScore(p) ==
    calculate_enhanced_relevance(ret.query, fallback_storage.documents[p],
                                 fallback_storage.metadatas[p], FallbackBaseScore)

\* C27: on the fallback backend every returned item scores above 0.1, every
\* chunk that passes the standards filter scores above 0.1, and the result
\* is the top_k best of the chunks that pass the filter.
ThresholdRemovesNothing ==
    (ret.op = "process" /\ ret.result.method = "enhanced_fallback") =>
        /\ \A i \in 1..Len(Standards) :
               FLess(InclusionThreshold, Standards[i].relevance_score)
        /\ \A p \in Selected(ret.selected_standards) :
               FLess(InclusionThreshold, FallbackScore(p))
        /\ Len(Standards) = Min(ret.top_k, Cardinality(Selected(ret.selected_standards)))
        /\ \A p \in Selected(ret.selected_standards) :
               \/ \E i \in 1..Len(Standards) :
                      /\ Standards[i].content = fallback_storage.documents[p]
                      /\ Standards[i].relevance_score = FallbackScore(p)
               \/ \A i \in 1..Len(Standards) :
                      ~FLess(Standards[i].relevance_score, FallbackScore(p))

\* a chunk whose score is below 0.15 is returned by the fallback query
ThresholdRemovesNothingWitness ==
    /\ ret.op = "process"
    /\ ret.result.method = "enhanced_fallback"
    /\ \E i \in 1..Len(Standards) : FLess(Standards[i].relevance_score, SectionBonuses.high)

\* the places of standards_index that hold position p
IndexPlaces(p) ==
    {x \in UNION {{<<s, m>> : m \in 1..Len(fallback_storage.standards_index[s])}
                     : s \in DOMAIN fallback_storage.standards_index} :
        fallback_storage.standards_index[x[1]][x[2]] = p}

\* C28: on the fallback backend documents, metadatas and ids have the same
\* length, every position from 0 to that length - 1 is at exactly one place
\* of standards_index, and standards_index[s] only holds positions of chunks
\* whose ui_standard is s.
StorageListsAligned ==
    collection.is_none =>
        /\ Len(fallback_storage.documents) = Len(fallback_storage.metadatas)
        /\ Len(fallback_storage.documents) = Len(fallback_storage.ids)
        /\ \A p \in 0..(Len(fallback_storage.documents) - 1) :
               Cardinality(IndexPlaces(p)) = 1
        /\ \A s \in DOMAIN fallback_storage.standards_index :
               \A m \in 1..Len(fallback_storage.standards_index[s]) :
                   /\ fallback_storage.standards_index[s][m]
                          \in 0..(Len(fallback_storage.documents) - 1)
                   /\ fallback_storage.metadatas[fallback_storage.standards_index[s][m] + 1]
                          .ui_standard = s

\* a fallback storage with the chunks of two standards
StorageListsAlignedWitness ==
    /\ collection.is_none
    /\ Len(fallback_storage.documents) >= 4
    /\ Cardinality(DOMAIN fallback_storage.standards_index) = 2

\* C29: the flag _standards_loaded never goes back to false, and once it is
\* set, process without selected standards, get_available_standards and
\* load_standards_from_directory add no chunk to the index.
LoadedFlagIsFinal ==
    [][/\ standards_loaded => standards_loaded'
       /\ (/\ standards_loaded
           /\ \/ ret'.op = "process" /\ ret'.selected_standards = <<>>
              \/ ret'.op \in {"get_available_standards", "load_standards_from_directory"})
          => /\ collection' = collection
             /\ fallback_storage'.documents = fallback_storage.documents
             /\ fallback_storage'.ids = fallback_storage.ids]_vars

\* load_standards_from_directory called with the flag set and chunks in the
\* index
LoadedFlagIsFinalWitness ==
    /\ ret.op = "load_standards_from_directory"
    /\ ret.loaded_before
    /\ standards_loaded
    /\ StoreIds # <<>>

\* C30: when a call of process returns, the status is "completed" or "error",
\* never the "retrieving" of its entry, and error_count has grown by one if
\* the call ended in "error" and not at all otherwise.
ProcessEndsCompletedOrError ==
    [][ret'.op = "process"
          => /\ status' \in {"completed", "error"}
             /\ error_count' = error_count + (IF status' = "error" THEN 1 ELSE 0)]_vars

====
